---- MODULE Spec2Model ----
(***************************************************************************)
(* Scan-processing core of the deepfake detection backend:                 *)
(*   - the aggregator       backend/src/agents/detection.agent.js          *)
(*   - the detection agent  backend/src/agents/detection.agent.js          *)
(*   - the job queue        backend/src/utils/queue.js                     *)
(*   - the queue processor  backend/src/scans/scan.processor.js            *)
(*   - the event channel    backend/src/scans/scan.socket.js               *)
(*                                                                         *)
(* The specifications share the variables:                                 *)
(*   SpecAgg       aggregatePredictions applied to bounded prediction lists*)
(*   SpecPipeline  processScan runs (stages, detectDeepfake, emits)        *)
(*   SpecQueue     the Bull queue and its workers, store available         *)
(*   SpecQueueFair SpecQueue with the scheduling Bull provides             *)
(*   SpecEnqueue   addScanJob with priorities, delays and store outages    *)
(*   SpecInference the Inference Client's calls for the units of a scan    *)
(*   SpecChannel   the event channel from emitScanUpdate to the callbacks  *)
(*   SpecUnsubscribe  the channel with unsubscribeFromScan                 *)
(*   SpecProcessor the queue with the processScan calls of its processors  *)
(*   SpecHealth    checkMLServiceHealth calls of the workers over time     *)
(*   SpecEmit      the emit operations before and after initializeSocket   *)
(***************************************************************************)
EXTENDS Integers, Sequences, FiniteSets, TLC

VARIABLES
    aggIn,       \* argument handed to aggregatePredictions
    aggOut,      \* what the call produced: nothing yet, a throw, or a value
    io,          \* scan.socket.js: the Socket.IO instance, "null" until initializeSocket
    emitted,     \* per scan id, the 'scan:update' events sent on the channel, in order
    mlEnabled,   \* ml.config.js: mlConfig.enabled
    pc,          \* per scan, where its processScan run stands
    started,     \* per scan, the stages its run has started, in order
    envelope,    \* per scan, the outputs the completed stages appended, in order
    outcome,     \* per scan, the persisted Scan Outcome
    dpc,         \* per scan, where its detectDeepfake call stands
    dres,        \* per scan, what its detectDeepfake call produced
    healthCalls, \* per scan, calls of checkMLServiceHealth
    mlCalls,     \* per scan, calls of callMLService
    fault,       \* per scan, the stage whose collaborator failed, and how
    queue,       \* what createScanQueue returned: "Queue", or "null"
    storeUp,     \* whether the durable store (Redis) accepts commands
    jobs,        \* per job id, the job record kept in the store
    nextJobId,   \* the store's job id counter
    wait,        \* the wait list; workers take from its right end
    prioritySet, \* the waiting jobs that were inserted by priority
    lock,        \* per job id, the worker holding the job's lock, or "none"
    worker,      \* per worker, the job its processor is running (0: idle)
    addResult,   \* what the last addScanJob call produced
    succeeded,   \* the jobs on which some run of the processor returned
    infN,        \* Inference Client: the number of units of the scan under detection
    infIx,       \* the unit the client works on
    infUnit,     \* per unit: calls made, transport failures met, result, prediction
    infOut,      \* what Detection produced from the units' predictions
    sock,        \* per client, its socket: "null", "connected" or "disconnected"
    listeners,   \* per client, the 'scan:update' listeners of its socket, in order
    inbox,       \* per client, the events sent to its socket and not yet received
    invoked,     \* per client, the calls of subscribers' callbacks, in order
    clock,       \* number of events the server has sent
    handles,     \* per client, the number of subscribeToScan calls it has made
    run,         \* per worker, how the processScan call of its processor ended
    now,         \* the time, in ms
    hc,          \* the health-check cache shared by the workers
    probes,      \* the times at which the liveness endpoint was probed, in order
    results,     \* the results of the probes, in order of arrival
    hcall,       \* per worker, where its checkMLServiceHealth call stands
    mlArg,       \* per scan, the argument detectDeepfake passed to callMLService
    mlReply,     \* per scan, what callMLService answered to detectDeepfake
    emitLog      \* the calls of the emit operations: operation, io then, how it ended

aggVars == <<aggIn, aggOut>>
pipeVars == <<io, emitted, mlEnabled, pc, started, envelope, outcome, dpc, dres,
              healthCalls, mlCalls, fault>>
queueVars == <<queue, storeUp, jobs, nextJobId, wait, prioritySet, lock, worker, addResult,
               succeeded>>
inferVars == <<infN, infIx, infUnit, infOut>>
chanVars == <<sock, listeners, inbox, invoked, clock, handles>>
healthVars == <<now, hc, probes, results, hcall>>
detVars == <<mlArg, mlReply>>
auxVars == <<run, healthVars, detVars, emitLog>>
vars == <<aggVars, pipeVars, queueVars, inferVars, chanVars, auxVars>>

(***************************************************************************)
(* Bounds of the model.                                                    *)
(***************************************************************************)
MaxPreds == 3
NumScans == 2
MaxJobs == 2
MaxUnits == 2
NumClients == 2
MaxListeners == 2
MaxEvents == 2
NumWorkers == 2
MaxTicks == 4
MaxEmits == 3

(***************************************************************************)
(* JavaScript numbers.  All inputs are integers in 0..100; the only        *)
(* non-integer values the code produces are quotients of integers, kept    *)
(* here as numerator/denominator pairs until the code rounds them.         *)
(* 0/0 is NaN, and Math.round(NaN) is NaN.                                 *)
(***************************************************************************)
NaN == -1

\* Math.round(n/d) for n >= 0, d > 0: the nearest integer, a tie going up.
MathRound(n, d) == (2 * n + d) \div (2 * d)

\* n/d lies exactly half-way between two integers.
IsTie(n, d) == (2 * n) % d = 0 /\ ((2 * n) \div d) % 2 = 1

\* The values Math.round can produce for a quotient n/d that the code
\* accumulates in floating point as a sum of products r_i * (c_i / T): away
\* from a tie the rounding error cannot change the result; on an exact tie
\* the accumulated sum may fall on either side of the half.
MathRoundOfFloatSum(n, d) ==
    IF d = 0 THEN {NaN}
    ELSE IF IsTie(n, d) THEN {MathRound(n, d) - 1, MathRound(n, d)}
    ELSE {MathRound(n, d)}

\* JavaScript truthiness of a number.
Truthy(x) == x # 0 /\ x # NaN

\* p.camel || p.snake || dflt, for numbers
FieldOr(p, camel, snake, dflt) ==
    IF camel \in DOMAIN p /\ Truthy(p[camel]) THEN p[camel]
    ELSE IF snake \in DOMAIN p /\ Truthy(p[snake]) THEN p[snake]
    ELSE dflt

\* p.camel || p.snake || dflt, for strings (the empty string is falsy)
StrFieldOr(p, camel, snake, dflt) ==
    IF camel \in DOMAIN p /\ p[camel] # "" THEN p[camel]
    ELSE IF snake \in DOMAIN p /\ p[snake] # "" THEN p[snake]
    ELSE dflt

RECURSIVE SumSeq(_)
SumSeq(s) == IF s = <<>> THEN 0 ELSE Head(s) + SumSeq(Tail(s))

SeqMin(s) == CHOOSE x \in {s[i] : i \in 1..Len(s)} : \A i \in 1..Len(s) : x <= s[i]
SeqMax(s) == CHOOSE x \in {s[i] : i \in 1..Len(s)} : \A i \in 1..Len(s) : x >= s[i]

(***************************************************************************)
(* Predictions handed to the aggregator.                                   *)
(***************************************************************************)
RiskValues == {0, 60, 70, 71, 80}
ConfValues == {0, 85, 90, 95}

\* The per-unit predictions of the repository's tests have the video score
\* five below the risk score, the fingerprint equal to it, no audio.
Prediction(r, c) ==
    [riskScore |-> r, confidence |-> c,
     videoScore |-> IF r >= 5 THEN r - 5 ELSE 0,
     audioScore |-> 0, ganFingerprint |-> r,
     temporalConsistency |-> 100, modelVersion |-> "v1"]

\* Predictions of units with an audio score, and with a temporal
\* consistency other than 100.
SubscoreVariants ==
    {[Prediction(70, 90) EXCEPT !.audioScore = a, !.temporalConsistency = t] :
        a \in {0, 80}, t \in {0, 50, 100}}

Predictions == {Prediction(r, c) : r \in RiskValues, c \in ConfValues} \cup SubscoreVariants

PredictionLists == UNION {[1..n -> Predictions] : n \in 0..MaxPreds}

AggInputs == {[kind |-> "undefined"]} \cup {[kind |-> "array", items |-> l] : l \in PredictionLists}

(***************************************************************************)
(* aggregatePredictions (detection.agent.js:15-66).                        *)
(* The result is the set of outcomes the call can have: one outcome,       *)
(* except on an exact rounding tie of the weighted risk score.             *)
(* The variance field, a number with two decimals in the code              *)
(* (Math.round(v * 100) / 100), is held in hundredths.                     *)
(***************************************************************************)
riskScores(ps) == [i \in 1..Len(ps) |-> FieldOr(ps[i], "riskScore", "risk_score", 0)]
confidences(ps) == [i \in 1..Len(ps) |-> FieldOr(ps[i], "confidence", "confidence", 0)]
videoScores(ps) == [i \in 1..Len(ps) |-> FieldOr(ps[i], "videoScore", "video_score", 0)]
ganFingerprints(ps) == [i \in 1..Len(ps) |-> FieldOr(ps[i], "ganFingerprint", "gan_fingerprint", 0)]
temporalConsistencies(ps) ==
    [i \in 1..Len(ps) |-> FieldOr(ps[i], "temporalConsistency", "temporal_consistency", 100)]

\* totalConfidence = confidences.reduce((a, b) => a + b, 0)
totalConfidence(ps) == SumSeq(confidences(ps))

\* Faulty variant of weightedRiskNumerator: every unit weighted with the
\* first unit's confidence (confidences[0] for confidences[idx]).
weightedRiskNumeratorFirstWeight(ps) ==
    SumSeq([i \in 1..Len(ps) |-> riskScores(ps)[i] * confidences(ps)[1]])

\* Numerator of weightedRiskScore over the denominator totalConfidence:
\* sum of risk_i * (conf_i / totalConfidence).
weightedRiskNumerator(ps) ==
    SumSeq([i \in 1..Len(ps) |-> riskScores(ps)[i] * confidences(ps)[i]])

\* variance(arr) = sum((val - mean)^2) / n, as the quotient
\* (n * sum(val^2) - sum(val)^2) / n^2.
varianceNum(arr) ==
    Len(arr) * SumSeq([i \in 1..Len(arr) |-> arr[i] * arr[i]]) - SumSeq(arr) * SumSeq(arr)
varianceDen(arr) == Len(arr) * Len(arr)

\* Faulty variant of uncertaintyOf: the scaled variance is not capped
\* (Math.min(100, ...) left out).
uncertaintyOfUncapped(arr) == MathRound(10 * varianceNum(arr), varianceDen(arr))

\* Math.round(Math.min(100, riskVariance * 10))
uncertaintyOf(arr) ==
    IF 10 * varianceNum(arr) >= 100 * varianceDen(arr) THEN 100
    ELSE MathRound(10 * varianceNum(arr), varianceDen(arr))

\* Faulty variant of SinglePrediction: a fresh object with the two main
\* scores only, the prediction's other fields not spread into it.
SinglePredictionMainScoresOnly(p) ==
    [riskScore |-> p.riskScore, confidence |-> p.confidence,
     frameCount |-> 1, variance |-> 0, uncertainty |-> 0]

\* { ...predictions[0], frameCount: 1, variance: 0, uncertainty: 0 }
SinglePrediction(p) ==
    [f \in DOMAIN p \cup {"frameCount", "variance", "uncertainty"} |->
        IF f = "frameCount" THEN 1
        ELSE IF f \in {"variance", "uncertainty"} THEN 0
        ELSE p[f]]

\* Faulty variant of EmptyPredictionsThrow: an all-zero result for no input.
EmptyPredictionsZeroResult ==
    {[kind |-> "return", value |->
        [riskScore |-> 0, confidence |-> 0, videoScore |-> 0, audioScore |-> 0,
         ganFingerprint |-> 0, temporalConsistency |-> 0, frameCount |-> 0,
         variance |-> 0, uncertainty |-> 0, modelVersion |-> "v1"]]}

\* if (!predictions || predictions.length === 0) throw new Error(...)
EmptyPredictionsThrow == {[kind |-> "throw", message |-> "No predictions to aggregate"]}

aggregatePredictions(predictions) ==
    IF predictions.kind = "undefined" \/ Len(predictions.items) = 0
    THEN EmptyPredictionsThrow
    ELSE LET ps == predictions.items IN
         IF Len(ps) = 1
         THEN {[kind |-> "return", value |-> SinglePrediction(ps[1])]}
         ELSE {[kind |-> "return", value |->
                  [riskScore |-> r,
                   confidence |-> MathRound(SumSeq(confidences(ps)), Len(ps)),
                   videoScore |-> MathRound(SumSeq(videoScores(ps)), Len(ps)),
                   audioScore |-> FieldOr(ps[1], "audioScore", "audio_score", 0),
                   ganFingerprint |-> MathRound(SumSeq(ganFingerprints(ps)), Len(ps)),
                   temporalConsistency |->
                       MathRound(SumSeq(temporalConsistencies(ps)), Len(ps)),
                   frameCount |-> Len(ps),
                   variance |-> MathRound(100 * varianceNum(riskScores(ps)),
                                          varianceDen(riskScores(ps))),
                   uncertainty |-> uncertaintyOf(riskScores(ps)),
                   modelVersion |-> StrFieldOr(ps[1], "modelVersion", "model_version", "v1")]]
               : r \in MathRoundOfFloatSum(weightedRiskNumerator(ps), totalConfidence(ps))}

\* One call of aggregatePredictions on the chosen argument.
Aggregate ==
    /\ aggOut.kind = "none"
    /\ aggOut' \in aggregatePredictions(aggIn)
    /\ UNCHANGED <<aggIn, auxVars, pipeVars, queueVars, inferVars, chanVars>>

AggIdle ==
    /\ aggIn = [kind |-> "undefined"]
    /\ aggOut = [kind |-> "idle"]

(***************************************************************************)
(* The event channel, server side (scan.socket.js).  emitScanUpdate        *)
(* broadcasts a 'scan:update' event carrying the scan id; `emitted` keeps, *)
(* per scan id, the payloads sent (without the timestamp).  Each operator  *)
(* gives the value of `emitted` after the call.                            *)
(***************************************************************************)
ScanIds == 1..NumScans

\* initializeSocket(socketIO): io = socketIO
initializeSocket ==
    /\ io = "null"
    /\ io' = "set"
    /\ UNCHANGED <<aggVars, auxVars, inferVars, chanVars, queueVars, emitted, mlEnabled, pc, started, envelope, outcome, dpc, dres,
                   healthCalls, mlCalls, fault>>

\* Faulty variant of emitScanUpdate: the guard inverted (if (io) return).
emitScanUpdateInvertedGuard(scanId, data) ==
    IF io = "set"
    THEN emitted
    ELSE [emitted EXCEPT ![scanId] = Append(@, data)]

emitScanUpdate(scanId, data) ==
    IF io = "null"
    THEN emitted          \* logger.warn, return
    ELSE [emitted EXCEPT ![scanId] = Append(@, data)]

emitScanProgress(scanId, progress, stage) ==
    emitScanUpdate(scanId, [type |-> "progress", progress |-> progress,
                            stage |-> stage, status |-> "PROCESSING"])

emitScanComplete(scanId, result) ==
    emitScanUpdate(scanId, [type |-> "complete", status |-> "COMPLETED",
                            result |-> result])

emitScanFailed(scanId, error) ==
    emitScanUpdate(scanId, [type |-> "failed", status |-> "FAILED",
                            error |-> [message |-> error.message]])

(***************************************************************************)
(* detectDeepfake (detection.agent.js:73-107), one action per await.       *)
(* An error message is the sequence of its parts: the catch block builds   *)
(* `Detection agent failed: ${error.message}`.                             *)
(***************************************************************************)
DetectionFailedPrefix == "Detection agent failed: "

\* catch (error) { throw new Error(`Detection agent failed: ${error.message}`) }
DetectionThrow(cause) == [kind |-> "throw", message |-> <<DetectionFailedPrefix>> \o cause]

\* What the ML service answers to an inference call.
MLResults ==
    {[riskScore |-> 75, confidence |-> 90, frameCount |-> 2, modelVersion |-> "v1"],
     [riskScore |-> 10, confidence |-> 95, frameCount |-> 1, modelVersion |-> "v1"]}
MLErrors == {<<"ML service request failed">>}
MLReplies == {[ok |-> TRUE, result |-> r] : r \in MLResults}
                \cup {[ok |-> FALSE, message |-> m] : m \in MLErrors}

\* The argument of detectDeepfake: what Perception put in the envelope.
perceptionData(s) == envelope[s][1].output

\* Entry of detectDeepfake up to its first await.
detectDeepfake(s) ==
    /\ pc[s] = "DETECTION" /\ dpc[s] = "start"
    /\ IF ~mlEnabled
       THEN /\ dres' = [dres EXCEPT ![s] =
                           DetectionThrow(<<"ML service is disabled in configuration">>)]
            /\ dpc' = [dpc EXCEPT ![s] = "done"]
            /\ fault' = [fault EXCEPT ![s] =
                            [stage |-> "DETECTION",
                             cause |-> <<"ML service is disabled in configuration">>]]
            /\ UNCHANGED healthCalls
       ELSE /\ healthCalls' = [healthCalls EXCEPT ![s] = @ + 1]
            /\ dpc' = [dpc EXCEPT ![s] = "health"]
            /\ UNCHANGED <<dres, fault>>
    /\ UNCHANGED <<aggVars, auxVars, inferVars, chanVars, queueVars, io, emitted, mlEnabled, pc, started, envelope, outcome, mlCalls>>

\* Faulty variant of checkMLServiceHealthReply: isHealthy is not tested,
\* the inference call is made whatever the health check said.
checkMLServiceHealthReplyUntested(s, isHealthy) ==
    /\ pc[s] = "DETECTION" /\ dpc[s] = "health"
    /\ fault' = [fault EXCEPT ![s] =
                    IF isHealthy THEN @
                    ELSE [stage |-> "DETECTION", cause |-> <<"ML service is not healthy">>]]
    /\ mlCalls' = [mlCalls EXCEPT ![s] = @ + 1]
    /\ mlArg' = [mlArg EXCEPT ![s] = perceptionData(s)]
    /\ dpc' = [dpc EXCEPT ![s] = "ml"]
    /\ UNCHANGED <<aggVars, run, healthVars, emitLog, mlReply, inferVars, chanVars, queueVars, io, emitted, mlEnabled, pc, started, envelope, outcome,
                   healthCalls, dres>>

\* checkMLServiceHealth resolves with isHealthy.
checkMLServiceHealthReply(s, isHealthy) ==
    /\ pc[s] = "DETECTION" /\ dpc[s] = "health"
    /\ IF ~isHealthy
       THEN /\ dres' = [dres EXCEPT ![s] = DetectionThrow(<<"ML service is not healthy">>)]
            /\ dpc' = [dpc EXCEPT ![s] = "done"]
            /\ fault' = [fault EXCEPT ![s] =
                            [stage |-> "DETECTION", cause |-> <<"ML service is not healthy">>]]
            /\ UNCHANGED <<mlCalls, mlArg>>
       ELSE /\ mlCalls' = [mlCalls EXCEPT ![s] = @ + 1]
            /\ mlArg' = [mlArg EXCEPT ![s] = perceptionData(s)]
            /\ dpc' = [dpc EXCEPT ![s] = "ml"]
            /\ UNCHANGED <<dres, fault>>
    /\ UNCHANGED <<aggVars, run, healthVars, emitLog, mlReply, inferVars, chanVars, queueVars, io, emitted, mlEnabled, pc, started, envelope, outcome, healthCalls>>

\* Faulty variant of callMLServiceReply: a rejected inference call is
\* answered with a default result instead of being rethrown.
callMLServiceReplyDefaulting(s, reply) ==
    /\ pc[s] = "DETECTION" /\ dpc[s] = "ml"
    /\ IF reply.ok
       THEN /\ dres' = [dres EXCEPT ![s] = [kind |-> "return", value |-> reply.result]]
            /\ UNCHANGED fault
       ELSE /\ dres' = [dres EXCEPT ![s] =
                           [kind |-> "return",
                            value |-> [riskScore |-> 0, confidence |-> 0, frameCount |-> 0,
                                       modelVersion |-> "v1"]]]
            /\ fault' = [fault EXCEPT ![s] = [stage |-> "DETECTION", cause |-> reply.message]]
    /\ mlReply' = [mlReply EXCEPT ![s] = reply]
    /\ dpc' = [dpc EXCEPT ![s] = "done"]
    /\ UNCHANGED <<aggVars, run, healthVars, emitLog, mlArg, inferVars, chanVars, queueVars, io, emitted, mlEnabled, pc, started, envelope, outcome,
                   healthCalls, mlCalls>>

\* Faulty variant of callMLServiceReply: the result is also written into the
\* perception data the call was given.
callMLServiceReplyWritingInput(s, reply) ==
    /\ pc[s] = "DETECTION" /\ dpc[s] = "ml"
    /\ IF reply.ok
       THEN /\ dres' = [dres EXCEPT ![s] = [kind |-> "return", value |-> reply.result]]
            /\ envelope' = [envelope EXCEPT ![s][1].output = "annotated"]
            /\ UNCHANGED fault
       ELSE /\ dres' = [dres EXCEPT ![s] = DetectionThrow(reply.message)]
            /\ fault' = [fault EXCEPT ![s] = [stage |-> "DETECTION", cause |-> reply.message]]
            /\ UNCHANGED envelope
    /\ mlReply' = [mlReply EXCEPT ![s] = reply]
    /\ dpc' = [dpc EXCEPT ![s] = "done"]
    /\ UNCHANGED <<aggVars, run, healthVars, emitLog, mlArg, inferVars, chanVars, queueVars, io, emitted, mlEnabled, pc, started, outcome,
                   healthCalls, mlCalls>>

\* Faulty variant of callMLServiceReply: the result is returned under a
\* model version of the agent's own.
callMLServiceReplyRelabelling(s, reply) ==
    /\ pc[s] = "DETECTION" /\ dpc[s] = "ml"
    /\ IF reply.ok
       THEN /\ dres' = [dres EXCEPT ![s] =
                           [kind |-> "return",
                            value |-> [reply.result EXCEPT !.modelVersion = "agent"]]]
            /\ UNCHANGED fault
       ELSE /\ dres' = [dres EXCEPT ![s] = DetectionThrow(reply.message)]
            /\ fault' = [fault EXCEPT ![s] = [stage |-> "DETECTION", cause |-> reply.message]]
    /\ mlReply' = [mlReply EXCEPT ![s] = reply]
    /\ dpc' = [dpc EXCEPT ![s] = "done"]
    /\ UNCHANGED <<aggVars, run, healthVars, emitLog, mlArg, inferVars, chanVars, queueVars, io, emitted, mlEnabled, pc, started, envelope, outcome,
                   healthCalls, mlCalls>>

\* callMLService(perceptionData) resolves with mlResults, or rejects.
callMLServiceReply(s, reply) ==
    /\ pc[s] = "DETECTION" /\ dpc[s] = "ml"
    /\ IF reply.ok
       THEN /\ dres' = [dres EXCEPT ![s] = [kind |-> "return", value |-> reply.result]]
            /\ UNCHANGED fault
       ELSE /\ dres' = [dres EXCEPT ![s] = DetectionThrow(reply.message)]
            /\ fault' = [fault EXCEPT ![s] = [stage |-> "DETECTION", cause |-> reply.message]]
    /\ mlReply' = [mlReply EXCEPT ![s] = reply]
    /\ dpc' = [dpc EXCEPT ![s] = "done"]
    /\ UNCHANGED <<aggVars, run, healthVars, emitLog, mlArg, inferVars, chanVars, queueVars, io, emitted, mlEnabled, pc, started, envelope, outcome,
                   healthCalls, mlCalls>>

(***************************************************************************)
(* processScan, the orchestrator (scans/scan.service.js): Perception,      *)
(* Detection, Compression-Adjustment, Cognition in this order; a progress  *)
(* event at each stage boundary; the outcome persisted and a completion    *)
(* event emitted at the end; a stage failure persists a FAILED outcome     *)
(* with the stage's name and error message and emits a failure event.      *)
(* Perception, Compression-Adjustment and Cognition are collaborators:     *)
(* each either returns or throws.                                          *)
(***************************************************************************)
StageNames == <<"PERCEPTION", "DETECTION", "COMPRESSION", "COGNITION">>
ExternalStages == {"PERCEPTION", "COMPRESSION", "COGNITION"}
StageIndex(name) == CHOOSE k \in 1..Len(StageNames) : StageNames[k] = name
StageErrors == {<<"stage collaborator failed">>}
NoFault == [stage |-> "", cause |-> <<>>]
NoOutcome == [status |-> "NONE", stage |-> "", message |-> <<>>]

\* processScan(scanId, filePath, userId) is called: Perception starts.
processScan(s) ==
    /\ pc[s] = "new"
    /\ pc' = [pc EXCEPT ![s] = "PERCEPTION"]
    /\ started' = [started EXCEPT ![s] = <<"PERCEPTION">>]
    /\ UNCHANGED <<aggVars, auxVars, inferVars, chanVars, queueVars, io, emitted, mlEnabled, envelope, outcome, dpc, dres,
                   healthCalls, mlCalls, fault>>

\* Faulty variant of StageDone: Compression-Adjustment is started right
\* after Perception, ahead of Detection.
StageDoneOutOfOrder(s, output) ==
    LET k == StageIndex(pc[s])
        next == IF k = 1 THEN 3 ELSE k + 1
    IN
    /\ envelope' = [envelope EXCEPT ![s] = Append(@, [stage |-> pc[s], output |-> output])]
    /\ emitted' = emitScanProgress(s, 25 * k, pc[s])
    /\ IF k < Len(StageNames)
       THEN /\ pc' = [pc EXCEPT ![s] = StageNames[next]]
            /\ started' = [started EXCEPT ![s] = Append(@, StageNames[next])]
            /\ UNCHANGED dpc
       ELSE /\ pc' = [pc EXCEPT ![s] = "PERSIST"]
            /\ UNCHANGED <<started, dpc>>

\* The stage in progress returned `output`: it is appended to the envelope,
\* progress is reported, and the next stage (if any) starts.
StageDone(s, output) ==
    LET k == StageIndex(pc[s]) IN
    /\ envelope' = [envelope EXCEPT ![s] = Append(@, [stage |-> pc[s], output |-> output])]
    /\ emitted' = emitScanProgress(s, 25 * k, pc[s])
    /\ IF k < Len(StageNames)
       THEN /\ pc' = [pc EXCEPT ![s] = StageNames[k + 1]]
            /\ started' = [started EXCEPT ![s] = Append(@, StageNames[k + 1])]
            /\ dpc' = [dpc EXCEPT ![s] =
                          IF StageNames[k + 1] = "DETECTION" THEN "start" ELSE @]
       ELSE /\ pc' = [pc EXCEPT ![s] = "PERSIST"]
            /\ UNCHANGED <<started, dpc>>

\* The stage in progress threw `error`: FAILED is persisted with the stage's
\* name and the error's message, the failure event is emitted, and
\* processScan rethrows.
StageFailed(s, error) ==
    /\ outcome' = [outcome EXCEPT ![s] =
                      [status |-> "FAILED", stage |-> pc[s], message |-> error.message]]
    /\ emitted' = emitScanFailed(s, error)
    /\ pc' = [pc EXCEPT ![s] = "failed"]

stageReturns(s) ==
    /\ pc[s] \in ExternalStages
    /\ StageDone(s, "output")
    /\ UNCHANGED <<aggVars, auxVars, inferVars, chanVars, queueVars, io, mlEnabled, outcome, dres, healthCalls, mlCalls, fault>>

stageThrows(s, message) ==
    /\ pc[s] \in ExternalStages
    /\ fault' = [fault EXCEPT ![s] = [stage |-> pc[s], cause |-> message]]
    /\ StageFailed(s, [message |-> message])
    /\ UNCHANGED <<aggVars, auxVars, inferVars, chanVars, queueVars, io, mlEnabled, started, envelope, dpc, dres, healthCalls, mlCalls>>

\* await detectDeepfake(perceptionData) returned.
detectionReturns(s) ==
    /\ pc[s] = "DETECTION" /\ dpc[s] = "done" /\ dres[s].kind = "return"
    /\ StageDone(s, dres[s].value)
    /\ UNCHANGED <<aggVars, auxVars, inferVars, chanVars, queueVars, io, mlEnabled, outcome, dres, healthCalls, mlCalls, fault>>

\* await detectDeepfake(perceptionData) threw.
detectionThrows(s) ==
    /\ pc[s] = "DETECTION" /\ dpc[s] = "done" /\ dres[s].kind = "throw"
    /\ StageFailed(s, [message |-> dres[s].message])
    /\ UNCHANGED <<aggVars, auxVars, inferVars, chanVars, queueVars, io, mlEnabled, started, envelope, dpc, dres, healthCalls, mlCalls, fault>>

\* All four stages succeeded: the outcome is persisted, completion is emitted.
persistOutcome(s) ==
    /\ pc[s] = "PERSIST"
    /\ outcome' = [outcome EXCEPT ![s] =
                      [status |-> "COMPLETED", stage |-> "", message |-> <<>>]]
    /\ emitted' = emitScanComplete(s, "result")
    /\ pc' = [pc EXCEPT ![s] = "completed"]
    /\ UNCHANGED <<aggVars, auxVars, inferVars, chanVars, queueVars, io, mlEnabled, started, envelope, dpc, dres, healthCalls, mlCalls, fault>>

PipeInit ==
    /\ io = "null"
    /\ emitted = [s \in ScanIds |-> <<>>]
    /\ mlEnabled \in BOOLEAN
    /\ pc = [s \in ScanIds |-> "new"]
    /\ started = [s \in ScanIds |-> <<>>]
    /\ envelope = [s \in ScanIds |-> <<>>]
    /\ outcome = [s \in ScanIds |-> NoOutcome]
    /\ dpc = [s \in ScanIds |-> "none"]
    /\ dres = [s \in ScanIds |-> [kind |-> "none"]]
    /\ healthCalls = [s \in ScanIds |-> 0]
    /\ mlCalls = [s \in ScanIds |-> 0]
    /\ fault = [s \in ScanIds |-> NoFault]

\* The pipeline's variables while no scan is run.
PipeIdle ==
    /\ io = "null"
    /\ emitted = [s \in ScanIds |-> <<>>]
    /\ mlEnabled = TRUE
    /\ pc = [s \in ScanIds |-> "idle"]
    /\ started = [s \in ScanIds |-> <<>>]
    /\ envelope = [s \in ScanIds |-> <<>>]
    /\ outcome = [s \in ScanIds |-> NoOutcome]
    /\ dpc = [s \in ScanIds |-> "none"]
    /\ dres = [s \in ScanIds |-> [kind |-> "none"]]
    /\ healthCalls = [s \in ScanIds |-> 0]
    /\ mlCalls = [s \in ScanIds |-> 0]
    /\ fault = [s \in ScanIds |-> NoFault]

(***************************************************************************)
(* The job queue (utils/queue.js) and its processor (scan.processor.js).   *)
(* createScanQueue configures a Bull queue: attempts 3, exponential        *)
(* backoff from 2000 ms, maxStalledCount 1.  The store keeps the wait      *)
(* list, the delayed and active jobs, and one lock per active job that its *)
(* worker renews while its event loop runs; the stall check requeues or    *)
(* fails an active job whose lock has expired.                             *)
(***************************************************************************)
Attempts == 3
MaxStalledCount == 1
BackoffDelay == 2000

JobIds == 1..MaxJobs
WorkerIds == 1..NumWorkers
Priorities == {0, 1, 2}        \* jobData.priority; 0 also stands for "absent"
Delays == {0, 5000}            \* jobData.delay; 0 also stands for "absent"
BatchIds == {"batch-1", "batch-2"}   \* jobData.batchId
\* The job data of the n-th submission: one job per scan, scan n.
JobData(n) == [scanId : {n}, batchId : BatchIds, priority : Priorities, delay : Delays]
\* Job data without priority and delay, the files of one batch.
PlainJobData(n) == [scanId : {n}, batchId : {"batch-1"}, priority : {0}, delay : {0}]

NoJob == [state |-> "none", scanId |-> 0, batchId |-> "", priority |-> 0, attemptsMade |-> 0,
          stalledCount |-> 0, failedReason |-> "", returnvalue |-> ""]

StalledReason == "job stalled more than allowable limit"
ProcessorError == "processScan failed"

\* createScanQueue: new Queue(...) returned, or threw and null was returned.
createScanQueue == {"Queue", "null"}

\* The wait list with job j put on it: a job without priority joins at the
\* left end (first in, first out); a job with priority p is inserted so
\* that the waiting jobs of priority 1..p stay to its right.
PushWait(w, ps, j, p) ==
    IF p = 0 THEN <<j>> \o w
    ELSE LET count == Cardinality({i \in ps \cup {j} :
                                      (IF i = j THEN p ELSE jobs[i].priority) <= p})
             pos == Len(w) - (count - 1) + 1
         IN IF pos > Len(w) THEN Append(w, j)
            ELSE SubSeq(w, 1, pos - 1) \o <<j>> \o SubSeq(w, pos, Len(w))

PushPriority(ps, j, p) == IF p = 0 THEN ps ELSE ps \cup {j}

\* backoff { type: 'exponential', delay: 2000 }: 2000 * 2^(attemptsMade - 1)
Backoff(attemptsMade) == BackoffDelay * (2 ^ (attemptsMade - 1))

\* Faulty variant of addScanJob: the catch block logs the error and returns
\* without rethrowing, and a missing queue is answered the same way.
addScanJobSwallowing(jobData) ==
    /\ IF queue = "null" \/ ~storeUp
       THEN /\ addResult' = [kind |-> "return", job |-> 0, message |-> ""]
            /\ UNCHANGED <<jobs, nextJobId, wait, prioritySet>>
       ELSE LET j == nextJobId
                p == FieldOr(jobData, "priority", "priority", 0)
                d == FieldOr(jobData, "delay", "delay", 0)
            IN /\ nextJobId <= MaxJobs
               /\ jobs' = [jobs EXCEPT ![j] =
                              [NoJob EXCEPT !.state = IF d > 0 THEN "delayed" ELSE "waiting",
                                            !.scanId = jobData.scanId,
                                            !.batchId = jobData.batchId,
                                            !.priority = p]]
               /\ nextJobId' = nextJobId + 1
               /\ wait' = IF d > 0 THEN wait ELSE PushWait(wait, prioritySet, j, p)
               /\ prioritySet' = IF d > 0 THEN prioritySet ELSE PushPriority(prioritySet, j, p)
               /\ addResult' = [kind |-> "return", job |-> j, message |-> ""]
    /\ UNCHANGED <<aggVars, auxVars, inferVars, chanVars, pipeVars, succeeded, queue, storeUp, lock, worker>>

\* addScanJob(queue, jobData): throws without a queue; rethrows what
\* queue.add rejects with; returns the job that queue.add stored.
addScanJob(jobData) ==
    /\ IF queue = "null"
       THEN /\ addResult' = [kind |-> "throw", job |-> 0,
                             message |-> "Queue not initialized. Redis server may not be running."]
            /\ UNCHANGED <<jobs, nextJobId, wait, prioritySet>>
       ELSE IF ~storeUp
       THEN /\ addResult' = [kind |-> "throw", job |-> 0, message |-> "store error"]
            /\ UNCHANGED <<jobs, nextJobId, wait, prioritySet>>
       ELSE LET j == nextJobId
                p == FieldOr(jobData, "priority", "priority", 0)
                d == FieldOr(jobData, "delay", "delay", 0)
            IN /\ nextJobId <= MaxJobs
               /\ jobs' = [jobs EXCEPT ![j] =
                              [NoJob EXCEPT !.state = IF d > 0 THEN "delayed" ELSE "waiting",
                                            !.scanId = jobData.scanId,
                                            !.batchId = jobData.batchId,
                                            !.priority = p]]
               /\ nextJobId' = nextJobId + 1
               /\ wait' = IF d > 0 THEN wait ELSE PushWait(wait, prioritySet, j, p)
               /\ prioritySet' = IF d > 0 THEN prioritySet ELSE PushPriority(prioritySet, j, p)
               /\ addResult' = [kind |-> "return", job |-> j, message |-> ""]
    /\ UNCHANGED <<aggVars, auxVars, inferVars, chanVars, pipeVars, succeeded, queue, storeUp, lock, worker>>

\* The store becomes unreachable, or reachable again.
storeFails ==
    /\ storeUp
    /\ storeUp' = FALSE
    /\ UNCHANGED <<aggVars, auxVars, inferVars, chanVars, pipeVars, succeeded, queue, jobs, nextJobId, wait, prioritySet, lock,
                   worker, addResult>>

storeRecovers ==
    /\ ~storeUp
    /\ storeUp' = TRUE
    /\ UNCHANGED <<aggVars, auxVars, inferVars, chanVars, pipeVars, succeeded, queue, jobs, nextJobId, wait, prioritySet, lock,
                   worker, addResult>>

\* The delay of a delayed job has elapsed: it joins the wait list.
promoteDelayed(j) ==
    /\ jobs[j].state = "delayed"
    /\ jobs' = [jobs EXCEPT ![j].state = "waiting"]
    /\ wait' = PushWait(wait, prioritySet, j, jobs[j].priority)
    /\ prioritySet' = PushPriority(prioritySet, j, jobs[j].priority)
    /\ UNCHANGED <<aggVars, auxVars, inferVars, chanVars, pipeVars, succeeded, queue, storeUp, nextJobId, lock, worker, addResult>>

\* An idle worker takes the job at the right end of the wait list and locks
\* it; the processor registered by setupScanProcessor starts on it.
claimJob(w) ==
    /\ queue = "Queue"
    /\ worker[w] = 0
    /\ wait # <<>>
    /\ LET j == wait[Len(wait)] IN
       /\ wait' = SubSeq(wait, 1, Len(wait) - 1)
       /\ prioritySet' = prioritySet \ {j}
       /\ jobs' = [jobs EXCEPT ![j].state = "active"]
       /\ lock' = [lock EXCEPT ![j] = w]
       /\ worker' = [worker EXCEPT ![w] = j]
    /\ UNCHANGED <<aggVars, auxVars, inferVars, chanVars, pipeVars, succeeded, queue, storeUp, nextJobId, addResult>>

\* Faulty variant of moveToCompleted: the job's lock is not looked at.
moveToCompletedWithoutLock(w) ==
    /\ worker[w] # 0
    /\ jobs' = [jobs EXCEPT ![worker[w]].state = "completed",
                            ![worker[w]].returnvalue = "result"]
    /\ lock' = [lock EXCEPT ![worker[w]] = 0]
    /\ worker' = [worker EXCEPT ![w] = 0]
    /\ succeeded' = succeeded \cup {worker[w]}

\* What the queue does with a processor that returned: the job becomes
\* completed with the result as return value.  Without the job's lock the
\* move is refused.
moveToCompleted(w) ==
    /\ worker[w] # 0
    /\ LET j == worker[w] IN
       IF lock[j] = w
       THEN /\ jobs' = [jobs EXCEPT ![j].state = "completed", ![j].returnvalue = "result"]
            /\ lock' = [lock EXCEPT ![j] = 0]
       ELSE UNCHANGED <<jobs, lock>>
    /\ worker' = [worker EXCEPT ![w] = 0]
    /\ succeeded' = succeeded \cup {worker[w]}

\* The processor's promise resolved: processScan returned and its result is
\* the job's return value.
processorReturns(w) ==
    /\ moveToCompleted(w)
    /\ UNCHANGED <<aggVars, auxVars, inferVars, chanVars, pipeVars, queue, storeUp, nextJobId, wait, prioritySet, addResult>>

\* Faulty variant of AfterFailedAttempt: one retry too many
\* (attemptsMade <= attempts for attemptsMade < attempts).
AfterFailedAttemptOneMore(job) ==
    [job EXCEPT !.attemptsMade = @ + 1,
                !.failedReason = ProcessorError,
                !.state = IF job.attemptsMade + 1 <= Attempts THEN "delayed" ELSE "failed"]

\* The state a failed attempt leaves the job in: delayed for a retry while
\* attempts remain, failed otherwise.
AfterFailedAttempt(job) ==
    [job EXCEPT !.attemptsMade = @ + 1,
                !.failedReason = ProcessorError,
                !.state = IF job.attemptsMade + 1 < Attempts /\ Backoff(job.attemptsMade + 1) > 0
                          THEN "delayed" ELSE "failed"]

\* What the queue does with a processor that threw: the attempt is counted
\* and the job is delayed for a retry or failed.  Without the job's lock the
\* move is refused.
moveToFailed(w) ==
    /\ worker[w] # 0
    /\ LET j == worker[w] IN
       IF lock[j] = w
       THEN /\ jobs' = [jobs EXCEPT ![j] = AfterFailedAttempt(jobs[j])]
            /\ lock' = [lock EXCEPT ![j] = 0]
       ELSE UNCHANGED <<jobs, lock>>
    /\ worker' = [worker EXCEPT ![w] = 0]
    /\ UNCHANGED succeeded

\* The processor's promise rejected: processScan threw and the processor
\* rethrew.
processorThrows(w) ==
    /\ moveToFailed(w)
    /\ UNCHANGED <<aggVars, auxVars, inferVars, chanVars, pipeVars, queue, storeUp, nextJobId, wait, prioritySet, addResult>>

(***************************************************************************)
(* The processor with the processScan call it awaits (scan.processor.js    *)
(* 26-47): processScan runs the pipeline for the job's scan and persists   *)
(* the outcome before it returns or throws; the processor returns a result *)
(* when processScan returned and rethrows what it threw.                   *)
(***************************************************************************)
NoRun == [w \in WorkerIds |-> "pending"]

\* await processScan(scanId, filePath, userId) returns: the pipeline
\* succeeded, the outcome is persisted and completion is emitted.
processScanReturns(w) ==
    /\ worker[w] # 0 /\ run[w] = "pending"
    /\ LET s == jobs[worker[w]].scanId IN
       /\ outcome' = [outcome EXCEPT ![s] =
                         [status |-> "COMPLETED", stage |-> "", message |-> <<>>]]
       /\ emitted' = emitScanComplete(s, "result")
    /\ run' = [run EXCEPT ![w] = "returned"]
    /\ UNCHANGED <<aggVars, healthVars, detVars, emitLog, inferVars, chanVars, queueVars, io, mlEnabled,
                   pc, started, envelope, dpc, dres, healthCalls, mlCalls, fault>>

\* await processScan(...) throws: a stage failed, FAILED is persisted with
\* the stage's name and the error's message, the failure is emitted.
processScanThrows(w, stage, message) ==
    /\ worker[w] # 0 /\ run[w] = "pending"
    /\ LET s == jobs[worker[w]].scanId IN
       /\ outcome' = [outcome EXCEPT ![s] =
                         [status |-> "FAILED", stage |-> stage, message |-> message]]
       /\ emitted' = emitScanFailed(s, [message |-> message])
    /\ run' = [run EXCEPT ![w] = "threw"]
    /\ UNCHANGED <<aggVars, healthVars, detVars, emitLog, inferVars, chanVars, queueVars, io, mlEnabled,
                   pc, started, envelope, dpc, dres, healthCalls, mlCalls, fault>>

\* The processor ends: return { scanId, status, verdict, batchId } after
\* processScan returned, throw error after it threw.
processorSettles(w) ==
    /\ run[w] # "pending"
    /\ IF run[w] = "returned" THEN moveToCompleted(w) ELSE moveToFailed(w)
    /\ run' = [run EXCEPT ![w] = "pending"]
    /\ UNCHANGED <<aggVars, healthVars, detVars, emitLog, inferVars, chanVars, pipeVars, queue, storeUp,
                   nextJobId, wait, prioritySet, addResult>>

\* The worker's process dies and is started again: its processor is gone,
\* the lock it held stays until it expires.
workerCrashes(w) ==
    /\ worker[w] # 0
    /\ worker' = [worker EXCEPT ![w] = 0]
    /\ UNCHANGED <<aggVars, auxVars, inferVars, chanVars, pipeVars, succeeded, queue, storeUp, jobs, nextJobId, wait, prioritySet,
                   lock, addResult>>

\* The lock of an active job expires: its worker died, or is alive but did
\* not renew it in time (event loop blocked, store unreachable).
lockExpires(j) ==
    /\ jobs[j].state = "active"
    /\ lock[j] # 0
    /\ lock' = [lock EXCEPT ![j] = 0]
    /\ UNCHANGED <<aggVars, auxVars, inferVars, chanVars, pipeVars, succeeded, queue, storeUp, jobs, nextJobId, wait, prioritySet,
                   worker, addResult>>

\* Faulty variant of checkStalledJob: no limit on stalls (maxStalledCount
\* ignored), a stalled job always goes back to the wait list.
checkStalledJobUnlimited(j) ==
    /\ jobs[j].state = "active"
    /\ lock[j] = 0
    /\ jobs[j].stalledCount <= MaxStalledCount + 1
    /\ jobs' = [jobs EXCEPT ![j].stalledCount = @ + 1, ![j].state = "waiting"]
    /\ wait' = Append(wait, j)
    /\ UNCHANGED <<aggVars, auxVars, inferVars, chanVars, pipeVars, succeeded, queue, storeUp, nextJobId, prioritySet, lock, worker, addResult>>

\* The stall check finds an active job without lock: it goes back to the
\* right end of the wait list, or fails once stalled more than
\* maxStalledCount times.
checkStalledJob(j) ==
    /\ jobs[j].state = "active"
    /\ lock[j] = 0
    /\ IF jobs[j].stalledCount + 1 > MaxStalledCount
       THEN /\ jobs' = [jobs EXCEPT ![j].stalledCount = @ + 1,
                                    ![j].state = "failed",
                                    ![j].failedReason = StalledReason]
            /\ UNCHANGED wait
       ELSE /\ jobs' = [jobs EXCEPT ![j].stalledCount = @ + 1, ![j].state = "waiting"]
            /\ wait' = Append(wait, j)
    /\ UNCHANGED <<aggVars, auxVars, inferVars, chanVars, pipeVars, succeeded, queue, storeUp, nextJobId, prioritySet, lock, worker, addResult>>

\* job.getState(): the state the store holds the job in; a stalled job is
\* still on the active list.
getState(j) == jobs[j].state

\* getBatchJobs(queue, batchId): the jobs that
\* queue.getJobs(['waiting', 'active', 'completed', 'failed']) returns,
\* filtered by job.data.batchId, each with its id, scan id and state.
getBatchJobs(batchId) ==
    IF queue = "null"
    THEN [kind |-> "throw", message |-> "Queue not initialized", value |-> {}]
    ELSE [kind |-> "return", message |-> "",
          value |-> {[id |-> j, scanId |-> jobs[j].scanId, state |-> getState(j)] :
                        j \in {i \in JobIds :
                                  /\ jobs[i].state \in {"waiting", "active", "completed", "failed"}
                                  /\ jobs[i].batchId = batchId}}]

QueueInit ==
    /\ queue \in createScanQueue
    /\ storeUp = TRUE
    /\ jobs = [j \in JobIds |-> NoJob]
    /\ nextJobId = 1
    /\ wait = <<>>
    /\ prioritySet = {}
    /\ lock = [j \in JobIds |-> 0]
    /\ worker = [w \in WorkerIds |-> 0]
    /\ addResult = [kind |-> "none", job |-> 0, message |-> ""]
    /\ succeeded = {}

\* The queue's variables while the queue is not used.
QueueIdle ==
    /\ queue = "null"
    /\ storeUp = TRUE
    /\ jobs = [j \in JobIds |-> NoJob]
    /\ nextJobId = 1
    /\ wait = <<>>
    /\ prioritySet = {}
    /\ lock = [j \in JobIds |-> 0]
    /\ worker = [w \in WorkerIds |-> 0]
    /\ addResult = [kind |-> "none", job |-> 0, message |-> ""]
    /\ succeeded = {}

(***************************************************************************)
(* The health check of the Inference Client (ml/ml-client.js), called by   *)
(* detectDeepfake before every inference (detection.agent.js:83).  Its     *)
(* result is cached for mlConfig.healthCheckInterval ms in a cache the     *)
(* workers share; reads and writes of the cache are atomic.  A call that   *)
(* finds no fresh entry records the time and probes the liveness endpoint; *)
(* a call made while the first probe is still under way waits for its      *)
(* result.                                                                 *)
(***************************************************************************)
HealthCheckInterval == 60000
Tick == HealthCheckInterval \div 2
MaxTime == MaxTicks * Tick

\* The cache before the first probe was answered: it holds no result.
NoHealth == [has |-> FALSE, value |-> FALSE, at |-> -1]
NoHealthCall == [pc |-> "idle"]
Returned(has, value, probed, n) ==
    [pc |-> "returned", has |-> has, value |-> value, probed |-> probed, seenAt |-> n]

\* Whether the cache entry was taken less than an interval ago.
Fresh == hc.at # -1 /\ now - hc.at < HealthCheckInterval

timePasses ==
    /\ now < MaxTime
    /\ now' = now + Tick
    /\ UNCHANGED <<aggVars, pipeVars, queueVars, inferVars, chanVars, run, detVars, emitLog, hc, probes, results, hcall>>

\* Faulty variant of checkMLServiceHealth: the time of a probe is not
\* recorded, so no entry is ever fresh.
checkMLServiceHealthUnstamped(w) ==
    /\ hcall[w].pc = "idle"
    /\ probes' = Append(probes, now)
    /\ hcall' = [hcall EXCEPT ![w] = [pc |-> "probing"]]
    /\ UNCHANGED hc
    /\ UNCHANGED <<aggVars, pipeVars, queueVars, inferVars, chanVars, run, detVars, emitLog, now, results>>

\* const isHealthy = await checkMLServiceHealth(), up to its first await.
checkMLServiceHealth(w) ==
    /\ hcall[w].pc = "idle"
    /\ IF Fresh
       THEN /\ hcall' = [hcall EXCEPT ![w] =
                            IF ~hc.has THEN [pc |-> "waiting"]
                            ELSE Returned(hc.has, hc.value, FALSE, Len(results))]
            /\ UNCHANGED <<hc, probes>>
       ELSE /\ hc' = [hc EXCEPT !.at = now]
            /\ probes' = Append(probes, now)
            /\ hcall' = [hcall EXCEPT ![w] = [pc |-> "probing"]]
    /\ UNCHANGED <<aggVars, pipeVars, queueVars, inferVars, chanVars, run, detVars, emitLog, now, results>>

\* The liveness endpoint answered the probe of worker w (no answer within
\* healthCheckTimeout counts as unhealthy): the result is stored and returned.
probeReplies(w, isHealthy) ==
    /\ hcall[w].pc = "probing"
    /\ hc' = [hc EXCEPT !.has = TRUE, !.value = isHealthy]
    /\ results' = Append(results, isHealthy)
    /\ hcall' = [hcall EXCEPT ![w] = Returned(TRUE, isHealthy, TRUE, Len(results) + 1)]
    /\ UNCHANGED <<aggVars, pipeVars, queueVars, inferVars, chanVars, run, detVars, emitLog, now, probes>>

\* A call that waited for the first probe reads its result.
waiterResumes(w) ==
    /\ hcall[w].pc = "waiting" /\ hc.has
    /\ hcall' = [hcall EXCEPT ![w] = Returned(hc.has, hc.value, FALSE, Len(results))]
    /\ UNCHANGED <<aggVars, pipeVars, queueVars, inferVars, chanVars, run, detVars, emitLog, now, hc, probes, results>>

\* detectDeepfake went on with isHealthy; the worker may call again.
healthCallEnds(w) ==
    /\ hcall[w].pc = "returned"
    /\ hcall' = [hcall EXCEPT ![w] = NoHealthCall]
    /\ UNCHANGED <<aggVars, pipeVars, queueVars, inferVars, chanVars, run, detVars, emitLog, now, hc, probes, results>>

HealthInit ==
    /\ now = 0
    /\ hc = NoHealth
    /\ probes = <<>>
    /\ results = <<>>
    /\ hcall = [w \in WorkerIds |-> NoHealthCall]

NoArg == "none"
NoReply == [ok |-> FALSE, message |-> <<>>]

AuxInit ==
    /\ run = NoRun
    /\ HealthInit
    /\ mlArg = [s \in ScanIds |-> NoArg]
    /\ mlReply = [s \in ScanIds |-> NoReply]
    /\ emitLog = <<>>

(***************************************************************************)
(* The Inference Client (ml/ml-client.js) within Detection.  For each unit *)
(* of the scan, in turn, the client calls the scoring endpoint: a          *)
(* prediction ends the unit; a well-formed error response fails the unit   *)
(* at once; a transport failure (connectivity, timeout) is retried, up to  *)
(* mlConfig.retries times, and then fails the unit.  A unit without        *)
(* prediction is skipped, and the Aggregator works over the predictions    *)
(* obtained.                                                               *)
(***************************************************************************)
Retries == 3

UnitIds == 1..MaxUnits
UnitPredictions == {Prediction(80, 95), Prediction(60, 85)}
NoUnit == [calls |-> 0, transient |-> 0, result |-> "pending", prediction |-> <<>>]

\* The predictions obtained so far, in the order of their units.
RECURSIVE CollectedUpTo(_)
CollectedUpTo(u) ==
    IF u = 0 THEN <<>>
    ELSE IF infUnit[u].result = "prediction"
         THEN Append(CollectedUpTo(u - 1), infUnit[u].prediction[1])
         ELSE CollectedUpTo(u - 1)

\* The endpoint answers the call for the current unit with a prediction.
endpointPredicts(p) ==
    /\ infOut.kind = "none" /\ infIx <= infN
    /\ infUnit' = [infUnit EXCEPT ![infIx] =
                      [@ EXCEPT !.calls = @ + 1, !.result = "prediction", !.prediction = <<p>>]]
    /\ infIx' = infIx + 1
    /\ UNCHANGED <<aggVars, auxVars, pipeVars, queueVars, chanVars, infN, infOut>>

\* Faulty variant of endpointRejects: an error response is retried like a
\* transport failure.
endpointRejectsRetried ==
    /\ infOut.kind = "none" /\ infIx <= infN
    /\ IF infUnit[infIx].calls < Retries
       THEN /\ infUnit' = [infUnit EXCEPT ![infIx] = [@ EXCEPT !.calls = @ + 1]]
            /\ UNCHANGED infIx
       ELSE /\ infUnit' = [infUnit EXCEPT ![infIx] =
                              [@ EXCEPT !.calls = @ + 1, !.result = "InvalidInputError"]]
            /\ infIx' = infIx + 1
    /\ UNCHANGED <<aggVars, auxVars, pipeVars, queueVars, chanVars, infN, infOut>>

\* The endpoint answers with a well-formed error response (malformed
\* input): the unit fails at once, without retry.
endpointRejects ==
    /\ infOut.kind = "none" /\ infIx <= infN
    /\ infUnit' = [infUnit EXCEPT ![infIx] =
                      [@ EXCEPT !.calls = @ + 1, !.result = "InvalidInputError"]]
    /\ infIx' = infIx + 1
    /\ UNCHANGED <<aggVars, auxVars, pipeVars, queueVars, chanVars, infN, infOut>>

\* Faulty variant of transportFails: one retry more than configured
\* (attempt <= retries + 1 for attempt <= retries).
transportFailsOneMoreRetry ==
    /\ infOut.kind = "none" /\ infIx <= infN
    /\ IF infUnit[infIx].transient < Retries + 1
       THEN /\ infUnit' = [infUnit EXCEPT ![infIx] =
                              [@ EXCEPT !.calls = @ + 1, !.transient = @ + 1]]
            /\ UNCHANGED infIx
       ELSE /\ infUnit' = [infUnit EXCEPT ![infIx] =
                              [@ EXCEPT !.calls = @ + 1, !.transient = @ + 1,
                                        !.result = "TransientTransportError"]]
            /\ infIx' = infIx + 1
    /\ UNCHANGED <<aggVars, auxVars, pipeVars, queueVars, chanVars, infN, infOut>>

\* The call for the current unit fails in transport: it is retried while
\* fewer than mlConfig.retries retries were made, else the unit fails.
transportFails ==
    /\ infOut.kind = "none" /\ infIx <= infN
    /\ IF infUnit[infIx].transient < Retries
       THEN /\ infUnit' = [infUnit EXCEPT ![infIx] =
                              [@ EXCEPT !.calls = @ + 1, !.transient = @ + 1]]
            /\ UNCHANGED infIx
       ELSE /\ infUnit' = [infUnit EXCEPT ![infIx] =
                              [@ EXCEPT !.calls = @ + 1, !.transient = @ + 1,
                                        !.result = "TransientTransportError"]]
            /\ infIx' = infIx + 1
    /\ UNCHANGED <<aggVars, auxVars, pipeVars, queueVars, chanVars, infN, infOut>>

\* The units without prediction are left out of what the Aggregator gets.
SkipFailedUnits == CollectedUpTo(infN)

\* Every unit has been dealt with: the Aggregator is applied to the
\* predictions obtained; what it throws, detectDeepfake rethrows.
aggregateUnits ==
    /\ infOut.kind = "none" /\ infIx = infN + 1
    /\ \E res \in aggregatePredictions([kind |-> "array", items |-> SkipFailedUnits]) :
          infOut' = IF res.kind = "throw" THEN DetectionThrow(<<res.message>>) ELSE res
    /\ UNCHANGED <<aggVars, auxVars, pipeVars, queueVars, chanVars, infN, infIx, infUnit>>

InferInit ==
    /\ infN \in UnitIds
    /\ infIx = 1
    /\ infUnit = [u \in UnitIds |-> NoUnit]
    /\ infOut = [kind |-> "none"]

\* The client's variables while no detection is under way.
InferIdle ==
    /\ infN = 1
    /\ infIx = 1
    /\ infUnit = [u \in UnitIds |-> NoUnit]
    /\ infOut = [kind |-> "idle"]

(***************************************************************************)
(* The event channel end to end: the server's emitScanUpdate               *)
(* (scan.socket.js) and the clients' socket module (the Socket.IO client:  *)
(* initializeSocket, subscribeToScan).  io.emit sends the event to every   *)
(* connected socket; a socket hands each event it receives to its          *)
(* 'scan:update' listeners in the order they were added; the listener that *)
(* subscribeToScan adds calls the subscriber's callback when the event's   *)
(* scanId is the one subscribed to.  The payload's timestamp is the number *)
(* of the event.                                                           *)
(***************************************************************************)
ClientIds == 1..NumClients
\* The callbacks a client passes to subscribeToScan.
Callbacks == 1..MaxListeners
ProgressData == [type |-> "progress", progress |-> 50, stage |-> "DETECTION",
                 status |-> "PROCESSING"]

\* { scanId, ...data, timestamp }
ScanUpdate(scanId, data) == [scanId |-> scanId, data |-> data, timestamp |-> clock + 1]

\* Faulty variant of ioEmit: the event goes to one connected socket only
\* (a socket's emit for the server's).
ioEmitToOneSocket(payload) ==
    [c \in ClientIds |->
        IF sock[c] = "connected" /\ \A b \in ClientIds : sock[b] = "connected" => c <= b
        THEN Append(inbox[c], payload) ELSE inbox[c]]

\* Faulty variant of ioEmit: the event is kept for the sockets that have
\* lost their connection and reaches them once they are connected again.
ioEmitBuffered(payload) ==
    [c \in ClientIds |->
        IF sock[c] # "null" THEN Append(inbox[c], payload) ELSE inbox[c]]

\* io.emit('scan:update', payload): to every connected socket.
ioEmit(payload) ==
    [c \in ClientIds |->
        IF sock[c] = "connected" THEN Append(inbox[c], payload) ELSE inbox[c]]

\* The server publishes a progress event for scan s.
publishScanUpdate(s) ==
    /\ clock < MaxEvents
    /\ emitted' = emitScanProgress(s, ProgressData.progress, ProgressData.stage)
    /\ IF io = "null"
       THEN UNCHANGED <<inbox, clock>>
       ELSE /\ inbox' = ioEmit(ScanUpdate(s, ProgressData))
            /\ clock' = clock + 1
    /\ UNCHANGED <<aggVars, auxVars, inferVars, queueVars, io, mlEnabled, pc, started, envelope, outcome,
                   dpc, dres, healthCalls, mlCalls, fault, sock, listeners, invoked, handles>>

\* Client: initializeSocket(token, userId), and the connection is made.
connectSocket(c) ==
    /\ sock[c] = "null"
    /\ sock' = [sock EXCEPT ![c] = "connected"]
    /\ UNCHANGED <<aggVars, auxVars, inferVars, queueVars, pipeVars, listeners, inbox, invoked, clock, handles>>

\* The connection of a client is lost: what was on its way is lost with it.
socketDrops(c) ==
    /\ sock[c] = "connected"
    /\ sock' = [sock EXCEPT ![c] = "disconnected"]
    /\ inbox' = [inbox EXCEPT ![c] = <<>>]
    /\ UNCHANGED <<aggVars, auxVars, inferVars, queueVars, pipeVars, listeners, invoked, clock, handles>>

\* reconnection: true
socketReconnects(c) ==
    /\ sock[c] = "disconnected"
    /\ sock' = [sock EXCEPT ![c] = "connected"]
    /\ UNCHANGED <<aggVars, auxVars, inferVars, queueVars, pipeVars, listeners, inbox, invoked, clock, handles>>

\* subscribeToScan(scanId, callback): without socket nothing is done;
\* otherwise a listener is added that filters by scanId.  Two fields are
\* history: since, the number of events sent before the listener was added,
\* and unsubscribedAt, the number of events sent before unsubscribeFromScan
\* was called for it (empty while it was not).
subscribeToScan(c, scanId, callback) ==
    /\ sock[c] # "null"
    /\ handles[c] < MaxListeners
    /\ callback = handles[c] + 1     \* every call passes a callback of its own
    /\ handles' = [handles EXCEPT ![c] = @ + 1]
    /\ listeners' = [listeners EXCEPT ![c] = Append(@, [scanId |-> scanId, callback |-> callback,
                                                    since |-> clock, unsubscribedAt |-> {}])]
    /\ UNCHANGED <<aggVars, auxVars, inferVars, queueVars, pipeVars, sock, inbox, invoked, clock>>

\* The function subscribeToScan returned is called: its listener is removed.
unsubscribe(c, i) ==
    /\ sock[c] # "null"
    /\ i \in 1..Len(listeners[c])
    /\ listeners' = [listeners EXCEPT ![c] =
                        SubSeq(@, 1, i - 1) \o SubSeq(@, i + 1, Len(@))]
    /\ UNCHANGED <<aggVars, auxVars, inferVars, queueVars, pipeVars, sock, inbox, invoked, clock, handles>>

\* The function a listener is: the handleUpdate closure that subscribeToScan
\* made around the subscriber's callback, never the callback itself.
ListenerFn(l) == [kind |-> "handleUpdate", callback |-> l.callback]

\* socket.off('scan:update', fn): the listeners that are fn are removed.
socketOff(ls, fn) ==
    LET Other(l) == ListenerFn(l) # fn
    IN SelectSeq(ls, Other)

\* unsubscribeFromScan(scanId, callback), called by a subscriber with the
\* scan and the callback it subscribed with: 'scan:unsubscribe' is sent
\* (the server leaves a room that emitScanUpdate does not use) and
\* socket.off is called with the callback.
unsubscribeFromScan(c, scanId, callback) ==
    /\ sock[c] # "null"
    /\ \E i \in 1..Len(listeners[c]) :
          /\ listeners[c][i].scanId = scanId /\ listeners[c][i].callback = callback
          /\ listeners[c][i].unsubscribedAt = {}
    /\ listeners' = [listeners EXCEPT ![c] =
                        LET kept == socketOff(@, [kind |-> "callback", callback |-> callback])
                        IN [i \in 1..Len(kept) |->
                               IF kept[i].scanId = scanId /\ kept[i].callback = callback
                               THEN [kept[i] EXCEPT !.unsubscribedAt = {clock}]
                               ELSE kept[i]]]
    /\ UNCHANGED <<aggVars, auxVars, inferVars, queueVars, pipeVars, sock, inbox, invoked, clock, handles>>

\* The callbacks called for event e by the listeners ls:
\* handleUpdate = data => { if (data.scanId === scanId) callback(data) }
HandleUpdate(ls, e) ==
    LET Matches(l) == l.scanId = e.scanId
        hit == SelectSeq(ls, Matches)
    IN [i \in 1..Len(hit) |-> [callback |-> hit[i].callback, event |-> e]]

\* A client's socket receives the next event and calls its listeners.
receiveScanUpdate(c) ==
    /\ sock[c] = "connected"
    /\ inbox[c] # <<>>
    /\ invoked' = [invoked EXCEPT ![c] = @ \o HandleUpdate(listeners[c], Head(inbox[c]))]
    /\ inbox' = [inbox EXCEPT ![c] = Tail(@)]
    /\ UNCHANGED <<aggVars, auxVars, inferVars, queueVars, pipeVars, sock, listeners, clock, handles>>

(***************************************************************************)
(* The six emit operations of scan.socket.js as calls.  A client that      *)
(* authenticates is joined to the room of its user (scan.socket.js:141-    *)
(* 147); client c is user c.  Every call is logged with the value of io it *)
(* found and the way it ended; the payload's timestamp is the call's       *)
(* number.                                                                 *)
(***************************************************************************)
UserIds == ClientIds
NotificationData == [type |-> "notification"]
UpdateData == [type |-> "update", status |-> "PROCESSING"]
CompleteData == [type |-> "complete", status |-> "COMPLETED", result |-> "result"]
FailedData == [type |-> "failed", status |-> "FAILED",
               error |-> [message |-> <<"stage collaborator failed">>]]

EmitPayload(scanId, data) == [scanId |-> scanId, data |-> data, timestamp |-> Len(emitLog) + 1]
Logged(op, result) == Append(emitLog, [op |-> op, io |-> io, result |-> result])

\* io.to(`user:${userId}`).emit(...): to the connected sockets in the room.
ioToUser(userId, payload) ==
    [c \in ClientIds |->
        IF sock[c] = "connected" /\ c = userId THEN Append(inbox[c], payload) ELSE inbox[c]]

\* The body shared by the operations: if (!io) { logger.warn(...); return; }
\* and otherwise the emit; room 0 stands for io.emit, to everyone.
GuardedEmit(op, room, payload) ==
    /\ Len(emitLog) < MaxEmits
    /\ emitLog' = Logged(op, "returned")
    /\ IF io = "null"
       THEN UNCHANGED inbox
       ELSE inbox' = IF room = 0 THEN ioEmit(payload) ELSE ioToUser(room, payload)

emitScanUpdateCalled(s) ==
    /\ GuardedEmit("emitScanUpdate", 0, EmitPayload(s, UpdateData))
    /\ emitted' = emitScanUpdate(s, UpdateData)
    /\ UNCHANGED <<aggVars, queueVars, inferVars, run, healthVars, detVars, io, mlEnabled, pc, started,
                   envelope, outcome, dpc, dres, healthCalls, mlCalls, fault, sock, listeners,
                   invoked, clock, handles>>

emitScanProgressCalled(s) ==
    /\ GuardedEmit("emitScanProgress", 0, EmitPayload(s, ProgressData))
    /\ emitted' = emitScanProgress(s, ProgressData.progress, ProgressData.stage)
    /\ UNCHANGED <<aggVars, queueVars, inferVars, run, healthVars, detVars, io, mlEnabled, pc, started,
                   envelope, outcome, dpc, dres, healthCalls, mlCalls, fault, sock, listeners,
                   invoked, clock, handles>>

emitScanCompleteCalled(s) ==
    /\ GuardedEmit("emitScanComplete", 0, EmitPayload(s, CompleteData))
    /\ emitted' = emitScanComplete(s, "result")
    /\ UNCHANGED <<aggVars, queueVars, inferVars, run, healthVars, detVars, io, mlEnabled, pc, started,
                   envelope, outcome, dpc, dres, healthCalls, mlCalls, fault, sock, listeners,
                   invoked, clock, handles>>

emitScanFailedCalled(s) ==
    /\ GuardedEmit("emitScanFailed", 0, EmitPayload(s, FailedData))
    /\ emitted' = emitScanFailed(s, FailedData.error)
    /\ UNCHANGED <<aggVars, queueVars, inferVars, run, healthVars, detVars, io, mlEnabled, pc, started,
                   envelope, outcome, dpc, dres, healthCalls, mlCalls, fault, sock, listeners,
                   invoked, clock, handles>>

emitScanUpdateToUser(userId, s) ==
    /\ GuardedEmit("emitScanUpdateToUser", userId, EmitPayload(s, UpdateData))
    /\ UNCHANGED <<aggVars, queueVars, inferVars, run, healthVars, detVars, pipeVars, sock, listeners,
                   invoked, clock, handles>>

\* Faulty variant of emitNotification: no test of io, so that with io null
\* io.to(...) throws a TypeError.
emitNotificationUnguarded(userId) ==
    /\ Len(emitLog) < MaxEmits
    /\ IF io = "null"
       THEN /\ emitLog' = Logged("emitNotification", "threw")
            /\ UNCHANGED inbox
       ELSE /\ emitLog' = Logged("emitNotification", "returned")
            /\ inbox' = ioToUser(userId, EmitPayload(0, NotificationData))
    /\ UNCHANGED <<aggVars, queueVars, inferVars, run, healthVars, detVars, pipeVars, sock, listeners,
                   invoked, clock, handles>>

\* 'notification:new' carries no scan id (0 here).
emitNotification(userId) ==
    /\ GuardedEmit("emitNotification", userId, EmitPayload(0, NotificationData))
    /\ UNCHANGED <<aggVars, queueVars, inferVars, run, healthVars, detVars, pipeVars, sock, listeners,
                   invoked, clock, handles>>

\* A client's socket takes the next event off its path.
socketReceives(c) ==
    /\ sock[c] = "connected"
    /\ inbox[c] # <<>>
    /\ inbox' = [inbox EXCEPT ![c] = Tail(@)]
    /\ UNCHANGED <<aggVars, auxVars, inferVars, queueVars, pipeVars, sock, listeners, invoked, clock, handles>>

ChanInit ==
    /\ sock = [c \in ClientIds |-> "null"]
    /\ listeners = [c \in ClientIds |-> <<>>]
    /\ inbox = [c \in ClientIds |-> <<>>]
    /\ invoked = [c \in ClientIds |-> <<>>]
    /\ clock = 0
    /\ handles = [c \in ClientIds |-> 0]

(***************************************************************************)
(* Specifications.                                                         *)
(***************************************************************************)
InitAgg ==
    /\ aggIn \in AggInputs
    /\ aggOut = [kind |-> "none"]
    /\ PipeIdle
    /\ QueueIdle
    /\ InferIdle
    /\ ChanInit
    /\ AuxInit

NextAgg == Aggregate

SpecAgg == InitAgg /\ [][NextAgg]_vars

InitPipeline ==
    /\ AggIdle
    /\ PipeInit
    /\ QueueIdle
    /\ InferIdle
    /\ ChanInit
    /\ AuxInit

NextPipeline ==
    \/ initializeSocket
    \/ \E s \in ScanIds : processScan(s)
    \/ \E s \in ScanIds : stageReturns(s)
    \/ \E s \in ScanIds, m \in StageErrors : stageThrows(s, m)
    \/ \E s \in ScanIds : detectDeepfake(s)
    \/ \E s \in ScanIds, h \in BOOLEAN : checkMLServiceHealthReply(s, h)
    \/ \E s \in ScanIds, r \in MLReplies : callMLServiceReply(s, r)
    \/ \E s \in ScanIds : detectionReturns(s)
    \/ \E s \in ScanIds : detectionThrows(s)
    \/ \E s \in ScanIds : persistOutcome(s)

SpecPipeline == InitPipeline /\ [][NextPipeline]_vars

InitQueue ==
    /\ AggIdle
    /\ PipeIdle
    /\ QueueInit
    /\ InferIdle
    /\ ChanInit
    /\ AuxInit

\* The queue at work: plain jobs, the store reachable.
NextQueue ==
    \/ \E d \in PlainJobData(nextJobId) : addScanJob(d)
    \/ \E j \in JobIds : promoteDelayed(j)
    \/ \E w \in WorkerIds : claimJob(w)
    \/ \E w \in WorkerIds : processorReturns(w)
    \/ \E w \in WorkerIds : processorThrows(w)
    \/ \E w \in WorkerIds : workerCrashes(w)
    \/ \E j \in JobIds : lockExpires(j)
    \/ \E j \in JobIds : checkStalledJob(j)

SpecQueue == InitQueue /\ [][NextQueue]_vars

\* Workers keep polling, a running processor ends or its worker dies, timers
\* fire: delays elapse, an unrenewed lock expires, the stall check runs.
SpecQueueFair ==
    /\ SpecQueue
    /\ \A w \in WorkerIds : WF_vars(claimJob(w))
    /\ \A w \in WorkerIds : WF_vars(processorReturns(w) \/ processorThrows(w))
    /\ \A j \in JobIds : WF_vars(promoteDelayed(j))
    /\ \A j \in JobIds : WF_vars(lockExpires(j))
    /\ \A j \in JobIds : WF_vars(checkStalledJob(j))

\* Submission and processing without stalls: any job data, the store
\* reachable or not.
NextEnqueue ==
    \/ \E d \in JobData(nextJobId) : addScanJob(d)
    \/ storeFails
    \/ storeRecovers
    \/ \E j \in JobIds : promoteDelayed(j)
    \/ \E w \in WorkerIds : claimJob(w)
    \/ \E w \in WorkerIds : processorReturns(w)
    \/ \E w \in WorkerIds : processorThrows(w)

SpecEnqueue == InitQueue /\ [][NextEnqueue]_vars

InitInference ==
    /\ AggIdle
    /\ PipeIdle
    /\ QueueIdle
    /\ InferInit
    /\ ChanInit
    /\ AuxInit

InitChannel ==
    /\ AggIdle
    /\ PipeIdle
    /\ QueueIdle
    /\ InferIdle
    /\ ChanInit
    /\ AuxInit

NextChannel ==
    \/ initializeSocket
    \/ \E s \in ScanIds : publishScanUpdate(s)
    \/ \E c \in ClientIds : connectSocket(c)
    \/ \E c \in ClientIds : socketDrops(c)
    \/ \E c \in ClientIds : socketReconnects(c)
    \/ \E c \in ClientIds, s \in ScanIds, f \in Callbacks : subscribeToScan(c, s, f)
    \/ \E c \in ClientIds, i \in 1..MaxListeners : unsubscribe(c, i)
    \/ \E c \in ClientIds : receiveScanUpdate(c)

SpecChannel == InitChannel /\ [][NextChannel]_vars

\* One client is connected, the others have no socket.
InitUnsubscribe ==
    /\ AggIdle
    /\ PipeIdle
    /\ QueueIdle
    /\ InferIdle
    /\ sock = [c \in ClientIds |-> IF c = 1 THEN "connected" ELSE "null"]
    /\ listeners = [c \in ClientIds |-> <<>>]
    /\ inbox = [c \in ClientIds |-> <<>>]
    /\ invoked = [c \in ClientIds |-> <<>>]
    /\ clock = 0
    /\ handles = [c \in ClientIds |-> 0]
    /\ AuxInit

\* The channel with both ways of unsubscribing, the connection kept.
NextUnsubscribe ==
    \/ initializeSocket
    \/ \E s \in ScanIds : publishScanUpdate(s)
    \/ \E c \in ClientIds, s \in ScanIds, f \in Callbacks : subscribeToScan(c, s, f)
    \/ \E c \in ClientIds, i \in 1..MaxListeners : unsubscribe(c, i)
    \/ \E c \in ClientIds, s \in ScanIds, f \in Callbacks : unsubscribeFromScan(c, s, f)
    \/ \E c \in ClientIds : receiveScanUpdate(c)

SpecUnsubscribe == InitUnsubscribe /\ [][NextUnsubscribe]_vars

\* The queue with the pipeline runs of its processors: plain jobs, locks
\* that expire while the worker goes on, the stall check.
InitHealth ==
    /\ AggIdle
    /\ PipeIdle
    /\ QueueIdle
    /\ InferIdle
    /\ ChanInit
    /\ AuxInit

NextHealth ==
    \/ timePasses
    \/ \E w \in WorkerIds : checkMLServiceHealth(w)
    \/ \E w \in WorkerIds, h \in BOOLEAN : probeReplies(w, h)
    \/ \E w \in WorkerIds : waiterResumes(w)
    \/ \E w \in WorkerIds : healthCallEnds(w)

SpecHealth == InitHealth /\ [][NextHealth]_vars

NextEmit ==
    \/ initializeSocket
    \/ \E c \in ClientIds : connectSocket(c)
    \/ \E s \in ScanIds : emitScanUpdateCalled(s)
    \/ \E u \in UserIds, s \in ScanIds : emitScanUpdateToUser(u, s)
    \/ \E s \in ScanIds : emitScanProgressCalled(s)
    \/ \E s \in ScanIds : emitScanCompleteCalled(s)
    \/ \E s \in ScanIds : emitScanFailedCalled(s)
    \/ \E u \in UserIds : emitNotification(u)
    \/ \E c \in ClientIds : socketReceives(c)

SpecEmit == InitChannel /\ [][NextEmit]_vars

NextProcessor ==
    \/ \E d \in PlainJobData(nextJobId) : addScanJob(d)
    \/ \E j \in JobIds : promoteDelayed(j)
    \/ \E w \in WorkerIds : claimJob(w)
    \/ \E w \in WorkerIds : processScanReturns(w)
    \/ \E w \in WorkerIds, m \in StageErrors : processScanThrows(w, "DETECTION", m)
    \/ \E w \in WorkerIds : processorSettles(w)
    \/ \E j \in JobIds : lockExpires(j)
    \/ \E j \in JobIds : checkStalledJob(j)

SpecProcessor == InitQueue /\ [][NextProcessor]_vars

NextInference ==
    \/ \E p \in UnitPredictions : endpointPredicts(p)
    \/ endpointRejects
    \/ transportFails
    \/ aggregateUnits

SpecInference == InitInference /\ [][NextInference]_vars

\* The endpoint call ends (the timeout bounds it) and the client goes on.
SpecInferenceFair == SpecInference /\ WF_vars(NextInference)

(***************************************************************************)
(* Properties of the aggregator, under SpecAgg.                            *)
(***************************************************************************)
Abs(x) == IF x < 0 THEN -x ELSE x

AggReturned == aggOut.kind = "return"
AggItems == aggIn.items
AggNonEmpty == aggIn.kind = "array" /\ Len(aggIn.items) >= 1
AggSingle == aggIn.kind = "array" /\ Len(aggIn.items) = 1
AggMany == aggIn.kind = "array" /\ Len(aggIn.items) > 1
InputRiskScores == [i \in 1..Len(AggItems) |-> AggItems[i].riskScore]
InputConfidences == [i \in 1..Len(AggItems) |-> AggItems[i].confidence]

\* The three predictions of the repository's weighted-average test.
ExampleInput == <<Prediction(80, 95), Prediction(60, 85), Prediction(70, 90)>>

\* C5: for every non-empty list of predictions with riskScore and
\* confidence in 0..100, confidences of 0 included, the riskScore returned
\* is a number between the least and the greatest input riskScore.
C5_RiskScoreWithinInputRange ==
    (AggNonEmpty /\ AggReturned) =>
        /\ aggOut.value.riskScore # NaN
        /\ SeqMin(InputRiskScores) <= aggOut.value.riskScore
        /\ aggOut.value.riskScore <= SeqMax(InputRiskScores)

\* C6: called with an empty list or with no list, aggregatePredictions
\* throws 'No predictions to aggregate'; it returns no result.
C6_EmptyInputThrows ==
    (aggOut.kind # "none" /\ ~AggNonEmpty) =>
        aggOut = [kind |-> "throw", message |-> "No predictions to aggregate"]

C6_Witness == aggIn.kind = "array" /\ aggIn.items = <<>> /\ aggOut.kind = "throw"

\* C7 as stated: for a single prediction p the result is p with the fields
\* unitCount 1, variance 0 and uncertainty 0 added.
C7_SinglePlusUnitCount ==
    (AggSingle /\ AggReturned) =>
        /\ DOMAIN aggOut.value = DOMAIN AggItems[1] \cup {"unitCount", "variance", "uncertainty"}
        /\ \A f \in DOMAIN AggItems[1] : aggOut.value[f] = AggItems[1][f]
        /\ aggOut.value.unitCount = 1
        /\ aggOut.value.variance = 0
        /\ aggOut.value.uncertainty = 0

\* C7 as amended: for a single prediction p the result is p with the fields
\* frameCount 1, variance 0 and uncertainty 0 added; the count field is
\* named frameCount, and the result has no field unitCount.
C7_SinglePlusFrameCount ==
    (AggSingle /\ AggReturned) =>
        /\ DOMAIN aggOut.value = DOMAIN AggItems[1] \cup {"frameCount", "variance", "uncertainty"}
        /\ \A f \in DOMAIN AggItems[1] : aggOut.value[f] = AggItems[1][f]
        /\ aggOut.value.frameCount = 1
        /\ aggOut.value.variance = 0
        /\ aggOut.value.uncertainty = 0

C7_Witness == AggSingle /\ AggReturned /\ AggItems[1].confidence = 0

\* C8: for N > 1 predictions whose confidences do not sum to 0, the
\* riskScore returned is an integer nearest to
\* sum(risk_i * conf_i) / sum(conf_i); for the example input it lies
\* strictly between 60 and 80, is at least 70, and the variance is > 0.
C8_WeightedMeanRounded ==
    (AggMany /\ AggReturned) =>
        LET S == SumSeq([i \in 1..Len(AggItems) |-> InputRiskScores[i] * InputConfidences[i]])
            T == SumSeq(InputConfidences)
            r == aggOut.value.riskScore
        IN /\ T > 0 => (r \in 0..100 /\ 2 * Abs(r * T - S) <= T)
           /\ AggItems = ExampleInput =>
                 (60 < r /\ r < 80 /\ r >= 70 /\ aggOut.value.variance > 0)

C8_Witness == aggIn.kind = "array" /\ AggItems = ExampleInput /\ AggReturned

(***************************************************************************)
(* Properties of the pipeline, under SpecPipeline.                         *)
(***************************************************************************)
IsSuffix(t, m) == Len(t) <= Len(m) /\ SubSeq(m, Len(m) - Len(t) + 1, Len(m)) = t
Faulted(s) == fault[s].stage # ""
Unhealthy(s) == fault[s] = [stage |-> "DETECTION", cause |-> <<"ML service is not healthy">>]
HasEvent(s, type) == \E i \in 1..Len(emitted[s]) : emitted[s][i].type = type

\* C3: when stage k of a run fails, the stages started in that run are
\* exactly stages 1..k, the run does not complete, and the outcome persisted
\* when the run ends is FAILED, names stage k and carries its error message.
C3_StageFailureShortCircuits ==
    \A s \in ScanIds : Faulted(s) =>
        LET k == StageIndex(fault[s].stage) IN
        /\ started[s] = SubSeq(StageNames, 1, k)
        /\ pc[s] \in {fault[s].stage, "failed"}
        /\ outcome[s].status \in {"NONE", "FAILED"}
        /\ pc[s] = "failed" =>
              /\ outcome[s].status = "FAILED"
              /\ outcome[s].stage = StageNames[k]
              /\ IsSuffix(fault[s].cause, outcome[s].message)

C3_Witness ==
    \E s \in ScanIds : /\ fault[s].stage = "DETECTION" /\ pc[s] = "failed"
                       /\ outcome[s].stage = "DETECTION"

C1_OneWorkerPerJob ==
    \A w1, w2 \in WorkerIds : (w1 # w2 /\ worker[w1] # 0) => worker[w1] # worker[w2]

\* C2 as stated: a job in state failed on which no run of the processor
\* returned, at least one threw and none is still going on has made exactly
\* Attempts attempts.
C2_FailedAtMaxAttempts ==
    \A j \in JobIds :
        (/\ jobs[j].state = "failed" /\ jobs[j].attemptsMade >= 1
         /\ j \notin succeeded
         /\ \A w \in WorkerIds : worker[w] # j) =>
        jobs[j].attemptsMade = Attempts

\* C2 as amended: every job added reaches a terminal state, failed unless an
\* attempt succeeded; a failed job stays as it is; a job never makes more
\* than Attempts attempts; a job failed by its last attempt has made exactly
\* Attempts attempts, and the only other way to fail is the stall limit.
C2_FailedAfterExhaustion ==
    /\ [](\A j \in JobIds :
            /\ jobs[j].attemptsMade <= Attempts
            /\ jobs[j].state = "failed" =>
                  \/ jobs[j].failedReason = ProcessorError /\ jobs[j].attemptsMade = Attempts
                  \/ jobs[j].failedReason = StalledReason
                        /\ jobs[j].stalledCount > MaxStalledCount)
    /\ [][\A j \in JobIds :
            /\ jobs[j].state = "failed" => jobs'[j] = jobs[j]
            /\ jobs[j].state # "none" => jobs'[j].state # "none"]_vars
    /\ \A j \in JobIds :
            (jobs[j].state # "none") ~>
                (jobs[j].state = "failed" \/ (jobs[j].state = "completed" /\ j \in succeeded))

C2_Witness ==
    \E j \in JobIds : /\ jobs[j].state = "failed" /\ jobs[j].attemptsMade = Attempts
                      /\ jobs[j].failedReason = ProcessorError

\* C10: a call of addScanJob made without a queue or while the store is
\* unreachable ends in a throw and stores nothing; a call that returns has
\* stored the job it returns.
C10_EnqueueFailsLoudly ==
    /\ [](addResult.kind = "return" =>
             (addResult.job \in JobIds /\ jobs[addResult.job].state # "none"))
    /\ [][(addResult' # addResult \/ nextJobId' # nextJobId) =>
             IF queue = "null" \/ ~storeUp
             THEN addResult'.kind = "throw" /\ jobs' = jobs /\ wait' = wait
             ELSE /\ addResult' = [kind |-> "return", job |-> nextJobId, message |-> ""]
                  /\ jobs'[nextJobId].state \in {"waiting", "delayed"}]_vars

C10_Witness == queue = "Queue" /\ ~storeUp /\ addResult.kind = "throw"

\* The jobs submitted with batch id b, and the entries of the batch status
\* in the given states.
BatchJobs(b) == {j \in JobIds : jobs[j].state # "none" /\ jobs[j].batchId = b}
BatchCount(b, states) == Cardinality({e \in getBatchJobs(b).value : e.state \in states})

\* C11: the batch status holds exactly one entry per job submitted with the
\* batch id, whatever the job's state, so the numbers of completed, failed
\* and pending entries sum to the number of jobs of the batch.
C11_BatchStatusCoversEveryJob ==
    \A b \in BatchIds : queue = "Queue" =>
        /\ getBatchJobs(b).kind = "return"
        /\ {e.id : e \in getBatchJobs(b).value} = BatchJobs(b)
        /\ BatchCount(b, {"completed"}) + BatchCount(b, {"failed"})
              + BatchCount(b, {"waiting", "active", "delayed"}) = Cardinality(BatchJobs(b))

\* C12 (its first part): the job a worker claims has the numerically highest
\* priority among the jobs waiting at that moment.
C12_HighestNumberFirst ==
    [][\A w \in WorkerIds : (worker[w] = 0 /\ worker'[w] # 0) =>
          \A i \in JobIds : jobs[i].state = "waiting" =>
              jobs[i].priority <= jobs[worker'[w]].priority]_vars

\* C13: a job's stall count never decreases; the first stall of a job puts
\* it back on the wait list, a second stall moves it to failed with the
\* stall limit as reason and leaves the wait list alone; so a job goes back
\* to the wait list through a stall at most once.
C13_StallRequeuedAtMostOnce ==
    /\ [](\A j \in JobIds : jobs[j].stalledCount <= MaxStalledCount + 1)
    /\ [][\A j \in JobIds :
            /\ jobs'[j].stalledCount >= jobs[j].stalledCount
            /\ jobs'[j].stalledCount # jobs[j].stalledCount =>
                  IF jobs[j].stalledCount = 0
                  THEN jobs'[j].state = "waiting" /\ wait' = Append(wait, j)
                  ELSE /\ jobs'[j].state = "failed" /\ wait' = wait
                       /\ jobs'[j].failedReason = StalledReason]_vars

C13_Witness ==
    \E j \in JobIds : /\ jobs[j].state = "failed" /\ jobs[j].failedReason = StalledReason
                      /\ jobs[j].stalledCount = 2 /\ jobs[j].attemptsMade >= 1

\* The stages whose outputs a run's envelope holds, in order.
EnvelopeStages(s) == [i \in 1..Len(envelope[s]) |-> envelope[s][i].stage]

\* C14: in a run the stages started and the stages completed are both
\* prefixes of Perception, Detection, Compression-Adjustment, Cognition; at
\* most one started stage is not completed; a detectDeepfake call is under
\* way only while Detection is that stage; and a stage starts only when
\* every stage before it has completed.
C14_StagesStrictlySequential ==
    /\ [](\A s \in ScanIds :
            /\ started[s] = SubSeq(StageNames, 1, Len(started[s]))
            /\ EnvelopeStages(s) = SubSeq(StageNames, 1, Len(envelope[s]))
            /\ Len(envelope[s]) <= Len(started[s])
            /\ Len(started[s]) <= Len(envelope[s]) + 1
            /\ pc[s] \in {StageNames[k] : k \in 1..Len(StageNames)} =>
                  (Len(started[s]) = StageIndex(pc[s]) /\ Len(envelope[s]) = StageIndex(pc[s]) - 1)
            /\ dpc[s] \in {"start", "health", "ml"} => pc[s] = "DETECTION")
    /\ [][\A s \in ScanIds : started'[s] # started[s] =>
            /\ Len(started[s]) < Len(StageNames)
            /\ started'[s] = Append(started[s], StageNames[Len(started[s]) + 1])
            /\ Len(envelope'[s]) = Len(started[s])
            /\ pc'[s] = StageNames[Len(started[s]) + 1]]_vars

C14_Witness ==
    \E s \in ScanIds : /\ pc[s] = "completed" /\ started[s] = StageNames
                       /\ EnvelopeStages(s) = StageNames

\* The unweighted mean of one field over the input predictions, rounded.
InputMean(field) == MathRound(SumSeq([i \in 1..Len(AggItems) |-> AggItems[i][field]]), Len(AggItems))

\* C18: for N > 1 predictions each subscore returned (video score, audio
\* score, GAN fingerprint, temporal consistency) is the rounded unweighted
\* mean of that subscore over the N inputs, subscores of 0 included.
C18_SubscoresAreMeans ==
    (AggMany /\ AggReturned) =>
        /\ aggOut.value.videoScore = InputMean("videoScore")
        /\ aggOut.value.audioScore = InputMean("audioScore")
        /\ aggOut.value.ganFingerprint = InputMean("ganFingerprint")
        /\ aggOut.value.temporalConsistency = InputMean("temporalConsistency")

\* Population variance of a sequence of numbers as the quotient
\* PairSpread(rs) / (2 * n^2): half the mean of the squared differences of
\* all pairs.
PairSpread(rs) ==
    SumSeq([k \in 1..(Len(rs) * Len(rs)) |->
               LET i == ((k - 1) \div Len(rs)) + 1
                   j == ((k - 1) % Len(rs)) + 1
               IN (rs[i] - rs[j]) * (rs[i] - rs[j])])

\* Inputs to compare the current one with: variances 0, 0.25, 25, 1600.
ReferenceRiskScores == {<<70, 70>>, <<70, 71>>, <<60, 70>>, <<0, 80>>}

\* C19 as stated: for N > 1 predictions the uncertainty returned equals
\* min(100, 10 * V), V the population variance of the input risk scores.
C19_UncertaintyIsScaledVariance ==
    (AggMany /\ AggReturned) =>
        LET n == Len(AggItems)
            u == aggOut.value.uncertainty
        IN u * 2 * n * n = IF 10 * PairSpread(InputRiskScores) >= 100 * 2 * n * n
                            THEN 100 * 2 * n * n
                            ELSE 10 * PairSpread(InputRiskScores)

\* C19 as amended: for N > 1 predictions the uncertainty returned is
\* min(100, 10 * V) rounded to the nearest integer, a half going up; it
\* lies in 0..100, and of two inputs the one with the larger variance never
\* gets the smaller uncertainty.
C19_UncertaintyIsRoundedScaledVariance ==
    (AggMany /\ AggReturned) =>
        LET n == Len(AggItems)
            d == 2 * n * n
            v == PairSpread(InputRiskScores)
            u == aggOut.value.uncertainty
        IN /\ u \in 0..100
           /\ 10 * v >= 100 * d => u = 100
           /\ 10 * v < 100 * d => (-d < 2 * (u * d - 10 * v) /\ 2 * (u * d - 10 * v) <= d)
           /\ \A rs \in ReferenceRiskScores :
                 LET m == Len(rs)
                     other == [kind |-> "array",
                               items |-> [i \in 1..m |-> Prediction(rs[i], 90)]]
                 IN \A res \in aggregatePredictions(other) :
                       /\ PairSpread(rs) * n * n >= v * m * m => res.value.uncertainty >= u
                       /\ PairSpread(rs) * n * n <= v * m * m => res.value.uncertainty <= u

C19_Witness ==
    /\ AggMany /\ AggReturned
    /\ aggOut.value.uncertainty \in 1..99

(***************************************************************************)
(* Properties of the Inference Client, under SpecInference.                *)
(***************************************************************************)
\* The units of the scan that yielded a prediction.
UnitsWithPrediction == {u \in 1..infN : infUnit[u].result = "prediction"}
DetectionEnded == infOut.kind \in {"return", "throw"}

C16_BoundedRetries ==
    /\ [](\A u \in UnitIds :
            /\ infUnit[u].calls <= 1 + Retries
            /\ infUnit[u].calls <= infUnit[u].transient + 1
            /\ infUnit[u].result = "TransientTransportError" <=>
                  infUnit[u].transient = 1 + Retries
            /\ infUnit[u].result = "pending" => infUnit[u].calls = infUnit[u].transient)
    /\ <>DetectionEnded

C16_Witness ==
    \E u \in UnitIds : /\ infUnit[u].result = "TransientTransportError"
                       /\ infUnit[u].calls = 1 + Retries

\* C17: the call that gets a well-formed error response is the unit's last
\* one: the unit fails in that step, no further call is made for it, and
\* every call of a unit but its last one ended in a transport failure.
C17_ErrorResponseNotRetried ==
    /\ [](\A u \in UnitIds : infUnit[u].result = "InvalidInputError" =>
              infUnit[u].calls = infUnit[u].transient + 1)
    /\ [][\A u \in UnitIds :
            /\ infUnit[u].result # "pending" => infUnit'[u] = infUnit[u]
            /\ (infUnit'[u].calls # infUnit[u].calls
                   /\ infUnit'[u].transient = infUnit[u].transient) =>
                  infUnit'[u].result \in {"prediction", "InvalidInputError"}]_vars

C17_Witness ==
    \E u \in UnitIds : /\ infUnit[u].result = "InvalidInputError"
                       /\ infUnit[u].calls = 1

\* The steps of the event channel: the server sends one more event; client
\* c's socket hands the event at the head of its path to its listeners.
IsPublication == clock' = clock + 1
IsReception(c) ==
    /\ sock[c] = "connected" /\ sock'[c] = "connected"
    /\ clock' = clock
    /\ inbox[c] # <<>> /\ inbox'[c] = Tail(inbox[c])

\* C20: an event published for a scan is sent, the same payload, to every
\* socket connected at that moment; when a socket receives it, every
\* listener subscribed on it to the event's scan is called with that event,
\* and the reception leaves the event with every other socket: an event
\* leaves a socket's path only by that socket's own reception or the loss of
\* its own connection.
C20_FanOutToEverySubscriber ==
    [][/\ IsPublication =>
            \E s \in ScanIds :
                \A c \in ClientIds :
                    inbox'[c] = IF sock[c] = "connected"
                                THEN Append(inbox[c], ScanUpdate(s, ProgressData))
                                ELSE inbox[c]
       /\ \A c \in ClientIds :
            IsReception(c) =>
                /\ \A i \in 1..Len(listeners[c]) :
                        listeners[c][i].scanId = Head(inbox[c]).scanId =>
                            \E k \in (Len(invoked[c]) + 1)..Len(invoked'[c]) :
                                invoked'[c][k] = [callback |-> listeners[c][i].callback,
                                                  event |-> Head(inbox[c])]
                /\ Len(invoked'[c]) - Len(invoked[c]) =
                        Cardinality({i \in 1..Len(listeners[c]) :
                                        listeners[c][i].scanId = Head(inbox[c]).scanId})
                /\ \A b \in ClientIds \ {c} :
                        inbox'[b] = inbox[b] /\ invoked'[b] = invoked[b]
       /\ \A b \in ClientIds :
            Len(inbox'[b]) < Len(inbox[b]) =>
                \/ IsReception(b)
                \/ sock[b] = "connected" /\ sock'[b] = "disconnected"]_vars

\* Every client subscribed to a scan before an event for it was published,
\* none has unsubscribed, every client has been called with that one event,
\* and one of them through two listeners of the scan.
C20_Witness ==
    \E s \in ScanIds, t \in 1..MaxEvents :
        /\ \A c \in ClientIds :
              /\ handles[c] = Len(listeners[c])
              /\ \A i \in 1..Len(listeners[c]) :
                    listeners[c][i].scanId = s /\ listeners[c][i].since < t
              /\ \E k \in 1..Len(invoked[c]) :
                    invoked[c][k].event = [scanId |-> s, data |-> ProgressData, timestamp |-> t]
        /\ \E c \in ClientIds :
              Cardinality({k \in 1..Len(invoked[c]) :
                              /\ invoked[c][k].event.scanId = s
                              /\ invoked[c][k].event.timestamp = t}) = 2

\* The calls of callbacks that a step adds for client c.
NewCalls(c) == (Len(invoked[c]) + 1)..Len(invoked'[c])
EventTimes(es) == {es[i].timestamp : i \in 1..Len(es)}

C22_UnsubscribedNeverCalledAgain ==
    [][\A c \in ClientIds :
          /\ \A k \in NewCalls(c) :
                \E i \in 1..Len(listeners[c]) :
                    /\ listeners[c][i].callback = invoked'[c][k].callback
                    /\ \A u \in listeners[c][i].unsubscribedAt :
                          invoked'[c][k].event.timestamp <= u
          /\ IsReception(c) =>
                \A i \in 1..Len(listeners[c]) :
                    (/\ listeners[c][i].scanId = Head(inbox[c]).scanId
                     /\ listeners[c][i].unsubscribedAt = {}) =>
                        \E k \in NewCalls(c) :
                            invoked'[c][k].callback = listeners[c][i].callback]_vars

(***************************************************************************)
(* Properties of the processor and the queue, under SpecProcessor and      *)
(* SpecQueue.                                                              *)
(***************************************************************************)
\* The scan of the job that worker w's processor runs.
ScanOf(w) == jobs[worker[w]].scanId

\* C23: a processScan call persists the outcome of its scan only when none
\* has been persisted for that scan, whatever attempt of the job it serves;
\* once persisted, the outcome of a scan stays as it is.
C23_OutcomeCreatedOnce ==
    [][/\ \A w \in WorkerIds :
            (run[w] = "pending" /\ run'[w] # "pending") => outcome[ScanOf(w)] = NoOutcome
       /\ \A s \in ScanIds :
            outcome[s] # NoOutcome => outcome'[s] = outcome[s]]_vars

\* C27: a job becomes completed only through a processor whose processScan
\* call returned, and at that moment the outcome of its scan is COMPLETED,
\* not FAILED; a processor whose processScan call threw does not complete
\* the job, and its attempt (made with the job's lock) is counted: the job
\* is delayed for a retry or failed.
C27_CompletedOnlyIfPipelineSucceeded ==
    [][\A j \in JobIds :
          /\ (jobs[j].state # "completed" /\ jobs'[j].state = "completed") =>
                /\ \E w \in WorkerIds : worker[w] = j /\ run[w] = "returned" /\ worker'[w] = 0
                /\ outcome[jobs[j].scanId].status = "COMPLETED"
          /\ \A w \in WorkerIds :
                (worker[w] = j /\ run[w] = "threw" /\ worker'[w] = 0) =>
                    IF lock[j] = w
                    THEN /\ jobs'[j].attemptsMade = jobs[j].attemptsMade + 1
                         /\ jobs'[j].state \in {"delayed", "failed"}
                    ELSE jobs'[j] = jobs[j]]_vars

\* The state of a job as the claim names it: an active job whose lock has
\* expired is stalled.
JobStateOf(job, lk) == IF job.state = "active" /\ lk = 0 THEN "stalled" ELSE job.state

\* The state changes of a job after its creation (as waiting, or as delayed
\* when submitted with a delay); a stalled job is re-claimed from the wait
\* list the stall check puts it back on.
ListedTransitions ==
    {<<"waiting", "active">>,
     <<"active", "completed">>, <<"active", "failed">>, <<"active", "delayed">>,
     <<"active", "stalled">>,
     <<"delayed", "waiting">>,
     <<"stalled", "waiting">>, <<"stalled", "failed">>}

\* C24: every change of a job's state is a listed transition; a completed
\* or failed job changes no more; and a job becomes completed only from
\* active, failed only from active or, by its second stall, from stalled.
C24_OnlyListedTransitions ==
    [][\A j \in JobIds :
          LET from == JobStateOf(jobs[j], lock[j])
              to == JobStateOf(jobs'[j], lock'[j])
          IN /\ (from # to /\ from # "none") => <<from, to>> \in ListedTransitions
             /\ from = "none" => to \in {"none", "waiting", "delayed"}
             /\ from \in {"completed", "failed"} => jobs'[j] = jobs[j]
             /\ (from # to /\ to = "completed") => from = "active"
             /\ (from # to /\ to = "failed") =>
                   \/ from = "active"
                   \/ from = "stalled" /\ jobs'[j].stalledCount = MaxStalledCount + 1]_vars

\* A job that stalled and was re-claimed, was retried after failed attempts
\* and ended failed.
C24_Witness ==
    \E j \in JobIds : /\ jobs[j].state = "failed" /\ jobs[j].failedReason = ProcessorError
                      /\ jobs[j].stalledCount = 1 /\ jobs[j].attemptsMade = Attempts

\* C25: the envelope of a run only grows: a step that changes it appends
\* one entry, the output of the stage that ends with that step, and leaves
\* every earlier entry as it was; the steps of a detectDeepfake call leave
\* the envelope, and so the perception data, unchanged, and the entry
\* appended for Detection is the result the call returned.
C25_EnvelopeAppendOnly ==
    [][\A s \in ScanIds :
          /\ envelope'[s] # envelope[s] =>
                /\ Len(envelope'[s]) = Len(envelope[s]) + 1
                /\ SubSeq(envelope'[s], 1, Len(envelope[s])) = envelope[s]
                /\ envelope'[s][Len(envelope'[s])].stage = pc[s]
                /\ pc'[s] # pc[s]
                /\ pc[s] = "DETECTION" =>
                      /\ dres[s].kind = "return"
                      /\ envelope'[s][Len(envelope'[s])].output = dres[s].value
          /\ (dpc'[s] # dpc[s] /\ pc[s] = "DETECTION") => envelope'[s] = envelope[s]]_vars

\* A completed run whose envelope holds the four outputs, Detection's being
\* a result of the ML service that follows the perception output.
C25_Witness ==
    \E s \in ScanIds : /\ pc[s] = "completed" /\ Len(envelope[s]) = Len(StageNames)
                       /\ envelope[s][1] = [stage |-> "PERCEPTION", output |-> "output"]
                       /\ envelope[s][2].stage = "DETECTION"
                       /\ envelope[s][2].output \in MLResults

\* C26: two probes of the liveness endpoint are at least healthCheckInterval
\* apart, whatever the number of calls and of workers; and a call returns
\* a Boolean that is the result of the latest probe answered when it read
\* the cache, or of the one before: never a missing or a mixed value.
C26_ProbedOncePerInterval ==
    /\ \A i, j \in 1..Len(probes) : i < j => probes[j] - probes[i] >= HealthCheckInterval
    /\ \A w \in WorkerIds : hcall[w].pc = "returned" =>
          /\ hcall[w].has
          /\ hcall[w].seenAt >= 1
          /\ \/ hcall[w].value = results[hcall[w].seenAt]
             \/ hcall[w].seenAt > 1 /\ hcall[w].value = results[hcall[w].seenAt - 1]

\* The endpoint was probed again after an interval, and while that probe of
\* one worker is under way another worker's call returned the cached result.
C26_Witness ==
    /\ Len(probes) = 2 /\ Len(results) = 1
    /\ \E w, v \in WorkerIds :
          /\ hcall[w].pc = "probing"
          /\ hcall[v].pc = "returned" /\ ~hcall[v].probed /\ hcall[v].value = results[1]

\* Whether client c has a subscription to scan s: subscribeToScan added a
\* listener for s and had the server join the socket to the room of s.
SubscribedTo(c, s) == \E i \in 1..Len(listeners[c]) : listeners[c][i].scanId = s

\* The calls a step adds are calls of subscriptions to the event's scan.
OnlyOwnScanCalls ==
    \A c \in ClientIds : \A k \in NewCalls(c) : \A i \in 1..Len(listeners[c]) :
        listeners[c][i].callback = invoked'[c][k].callback =>
            listeners[c][i].scanId = invoked'[c][k].event.scanId

\* C28: a callback subscribed to a scan is called only with events of that
\* scan, and an event is addressed by its topic: the event of a scan is put
\* on the way to the sockets subscribed to that scan and to no other.
C28_EventsAddressedByTopic ==
    [][/\ OnlyOwnScanCalls
       /\ \A c \in ClientIds :
             Len(inbox'[c]) > Len(inbox[c]) =>
                SubscribedTo(c, inbox'[c][Len(inbox'[c])].scanId)]_vars

C30_EmitBeforeInitialiseIsDropped ==
    /\ [](/\ \A k \in 1..Len(emitLog) :
                emitLog[k].io = "null" => emitLog[k].result = "returned"
          /\ \A c \in ClientIds : \A i \in 1..Len(inbox[c]) :
                emitLog[inbox[c][i].timestamp].io = "set")
    /\ [][/\ (emitLog' # emitLog /\ io = "null") =>
                (inbox' = inbox /\ invoked' = invoked /\ emitted' = emitted)
          /\ io' # io => (inbox' = inbox /\ invoked' = invoked /\ emitted' = emitted)]_vars

\* Two calls were made while io was not set, io was then set, and with
\* every client connected the event of a later call is on its way to a
\* client while none of the dropped ones is.
C30_Witness ==
    /\ Len(emitLog) = MaxEmits
    /\ emitLog[1].io = "null" /\ emitLog[2].io = "null" /\ emitLog[MaxEmits].io = "set"
    /\ \A c \in ClientIds : sock[c] = "connected"
    /\ \E c \in ClientIds : Len(inbox[c]) = 1 /\ inbox[c][1].timestamp = MaxEmits

====
